---- MODULE Spec2Model ----
(***************************************************************************)
(* TaCLe (tabular constraint learner): the geometry of blocks, the         *)
(* template catalogue, the assignment generator, the validation            *)
(* strategies and the learning loop, as a state machine.                   *)
(*                                                                         *)
(* Numbers are exact decimals with two fractional digits, held as the      *)
(* integer count of hundredths (10.2 is 1020).  A cell value is a record   *)
(* [k, v]: k = "num" (v hundredths), "str" (v the code of a text),         *)
(* "nan" (numeric blank) or "none" (textual blank).                        *)
(***************************************************************************)
EXTENDS Integers, Sequences, FiniteSets, TLC

VARIABLES
    cells,    \* table name -> 2-D value array (sequence of rows)
    blocks,   \* the input blocks handed to the learner
    store,    \* solutions store: sequence of [template, solutions] batches
    todo,     \* templates still to be learned, in visiting order
    result,   \* the call of learn_from_cells: its filter and what it returned
    argv,     \* the arguments of a call of one of the library's functions
    ret,      \* that call: the function called and what came back
    cache     \* the sub-block cache of the block called: <<i, n>> -> block

vars == <<cells, blocks, store, todo, result, argv, ret, cache>>

----------------------------------------------------------------------------
(* Cell values *)

Num(n) == [k |-> "num", v |-> n]
Whole(n) == [k |-> "num", v |-> n * 100]
Str(s) == [k |-> "str", v |-> s]
NaN == [k |-> "nan", v |-> 0]
None == [k |-> "none", v |-> 0]

IsNum(x) == x.k = "num"

\* blank_filter(data)[1]: the non-blank test of the array's dtype
\* (filter_nan for float arrays, filter_none otherwise).
blank_filter(x) == x.k \notin {"nan", "none"}

\* Python's == on two cell values (NaN is not equal to itself).
PyEq(x, y) == x.k = y.k /\ x.v = y.v /\ x.k \in {"num", "str"}

\* equal(x, y): tolerance 1e-10 on floats is exact equality on hundredths;
\* None only equals None, NaN equals NaN.
equal(x, y) ==
    IF x.k = "none" \/ y.k = "none" THEN x.k = y.k
    ELSE IF x.k = "nan" \/ y.k = "nan" THEN x.k = y.k
    ELSE x.k = y.k /\ x.v = y.v

\* precision_and_scale(x)[1]: the number of fractional digits of x.
precision_and_scale(n) ==
    IF n % 100 = 0 THEN 0 ELSE IF n % 10 = 0 THEN 1 ELSE 2

\* numpy.round(n, digits): round half to even at the given digit.
RoundTo(n, m) ==
    LET q == n \div m
        r == n % m
    IN  IF 2 * r < m THEN q * m
        ELSE IF 2 * r > m THEN (q + 1) * m
        ELSE IF q % 2 = 0 THEN q * m ELSE (q + 1) * m

numpy_round(n, digits) ==
    IF digits = 0 THEN RoundTo(n, 100)
    ELSE IF digits = 1 THEN RoundTo(n, 10)
    ELSE n

Range1(s) == {s[i] : i \in DOMAIN s}

RECURSIVE SeqSum(_)
SeqSum(s) == IF s = <<>> THEN 0 ELSE Head(s) + SeqSum(Tail(s))

RECURSIVE SeqMax(_)
SeqMax(s) ==
    IF Len(s) = 1 THEN s[1]
    ELSE LET m == SeqMax(Tail(s)) IN IF s[1] > m THEN s[1] ELSE m

RECURSIVE SeqMin(_)
SeqMin(s) ==
    IF Len(s) = 1 THEN s[1]
    ELSE LET m == SeqMin(Tail(s)) IN IF s[1] < m THEN s[1] ELSE m

\* s restricted to the indices where keep holds, order preserved
RECURSIVE Select(_, _, _)
Select(s, keep, i) ==
    IF i > Len(s) THEN <<>>
    ELSE (IF keep[i] THEN <<s[i]>> ELSE <<>>) \o Select(s, keep, i + 1)

----------------------------------------------------------------------------
(* Cell-type lattice (Typing) *)

NoType == "None"
IndexError == "IndexError"

hierarchy ==
    [t \in {"int", "float", "currency", "percentage"} |->
        IF t \in {"int", "float"} THEN "numeric" ELSE "float"]

RECURSIVE TypePath(_)
TypePath(t) ==
    <<t>> \o (IF t \in DOMAIN hierarchy THEN TypePath(hierarchy[t]) ELSE <<>>)

\* Python's p[k] for a negative k
NegIndex(p, k) == p[Len(p) + k + 1]

RECURSIVE LcaWalk(_, _, _)
LcaWalk(path1, path2, last) ==
    IF Len(path1) < 1 - last \/ Len(path2) < 1 - last THEN IndexError
    ELSE IF NegIndex(path1, last - 1) = NegIndex(path2, last - 1)
         THEN LcaWalk(path1, path2, last - 1)
         ELSE NegIndex(path1, last)

lowest_common_ancestor(cell_type1, cell_type2) ==
    IF cell_type1 = cell_type2 THEN cell_type1
    ELSE IF cell_type1 = NoType THEN cell_type2
    ELSE IF cell_type2 = NoType THEN cell_type1
    ELSE LET path1 == TypePath(cell_type1)
             path2 == TypePath(cell_type2)
         IN  IF NegIndex(path1, -1) # NegIndex(path2, -1) THEN NoType
             ELSE LcaWalk(path1, path2, -1)

RECURSIVE TypingFold(_, _)
TypingFold(super_type, rest) ==
    IF rest = <<>> THEN super_type
    ELSE IF super_type = IndexError THEN IndexError
    ELSE TypingFold(lowest_common_ancestor(super_type, Head(rest)), Tail(rest))

\* cell_types[0] of an empty list is an IndexError
Typing_max(cell_types) ==
    IF cell_types = <<>> THEN IndexError
    ELSE TypingFold(Head(cell_types), Tail(cell_types))

\* the test blank_detector returns, by name: "not isnan" is
\* lambda e: not numpy.isnan(e), "is not None" is lambda e: e is not None
blank_detector(cell_type) ==
    LET super_type == Typing_max(<<cell_type, "numeric">>)
    IN  IF super_type = IndexError THEN IndexError
        ELSE IF super_type # NoType THEN "not isnan"
        ELSE "is not None"

\* the blank of a type, or the exception raised on the way
get_blank(cell_type) ==
    LET super_type == Typing_max(<<cell_type, "numeric">>)
    IN  IF super_type = IndexError THEN [k |-> IndexError, v |-> 0]
        ELSE IF super_type # NoType THEN NaN
        ELSE None

----------------------------------------------------------------------------
(* Geometry: Range *)

Range(column, row, width, height) ==
    [column |-> column, row |-> row, width |-> width, height |-> height]

x0(r) == r.column
y0(r) == r.row
x1(r) == r.column + r.width
y1(r) == r.row + r.height

Max2(a, b) == IF a > b THEN a ELSE b
Min2(a, b) == IF a < b THEN a ELSE b

from_coordinates(cx0, cy0, cx1, cy1) == Range(cx0, cy0, cx1 - cx0, cy1 - cy0)

Range_cells(r) == r.height * r.width

intersect(a, b) ==
    from_coordinates(Max2(x0(a), x0(b)), Max2(y0(a), y0(b)),
                     Min2(x1(a), x1(b)), Min2(y1(a), y1(b)))

Range_contains(a, b) ==
    x0(a) <= x0(b) /\ y0(a) <= y0(b) /\ x1(a) >= x1(b) /\ y1(a) >= y1(b)

Range_overlaps_with(a, b) == Range_cells(intersect(a, b)) > 0

Range_eq(a, b) ==
    x0(a) = x0(b) /\ y0(a) = y0(b) /\ x1(a) = x1(b) /\ y1(a) = y1(b)

Range_vector_count(r, orientation) ==
    IF orientation = "vertical" THEN r.width ELSE r.height

Range_vector_length(r, orientation) ==
    IF orientation = "vertical" THEN r.height ELSE r.width

Range_vector_index(r, orientation) ==
    IF orientation = "vertical" THEN x0(r) ELSE y0(r)

\* the exception object sub_range hands back
ValueError == [exception |-> "ValueError"]

\* sub_range: the overrun guard compares against x1 whatever the orientation
\* and hands back the ValueError as a value.
sub_range(r, vector_index, vector_count, orientation) ==
    IF x0(r) + vector_index + vector_count > x1(r) THEN ValueError
    ELSE IF orientation = "vertical"
    THEN Range(x0(r) + vector_index, y0(r), vector_count, r.height)
    ELSE Range(x0(r), y0(r) + vector_index, r.width, vector_count)

\* the sheet cells (table-relative <<column, row>>) a range really covers
CellsOf(r) == {<<c, w>> : c \in x0(r)..(x1(r) - 1), w \in y0(r)..(y1(r) - 1)}

----------------------------------------------------------------------------
(* Geometry: Block.  A block is [table, relative_range, orientation,       *)
(* vector_types]; its data is the table's array under its range.           *)

Block(table, relative_range, orientation, vector_types) ==
    [table |-> table, relative_range |-> relative_range,
     orientation |-> orientation, vector_types |-> vector_types]

vector_count(b) == Range_vector_count(b.relative_range, b.orientation)
vector_length(b) == Range_vector_length(b.relative_range, b.orientation)
vector_index(b) == Range_vector_index(b.relative_range, b.orientation)

\* Block.type: the lattice join of the per-vector types
dtype(b) == Typing_max(b.vector_types)

\* what a call gives: a value, or the exception it raised
Returned(value) == [raised |-> "", value |-> value]
Raised(exception) == [raised |-> exception]

\* Block.__init__ on data cast to the vector types: the slice of the table
\* is taken from the range (a ValueError object in its place has no
\* get_data), the type is the join of the vector types and the blank
\* detector of that type is run over the data (numpy.isnan raises on text)
Block_new(table, relative_range, orientation, vector_types) ==
    IF "exception" \in DOMAIN relative_range THEN Raised("AttributeError")
    ELSE LET type == Typing_max(vector_types)
         IN  IF type = IndexError THEN Raised(IndexError)
             ELSE IF blank_detector(type) = IndexError THEN Raised(IndexError)
             ELSE IF /\ blank_detector(type) = "not isnan"
                     /\ \E i \in DOMAIN vector_types : vector_types[i] = "string"
                  THEN Raised("TypeError")
             ELSE Returned(Block(table, relative_range, orientation, vector_types))

\* Python's s[i:i + n] on a sequence, i counted from 0
Slice0(s, i, n) == SubSeq(s, i + 1, Min2(i + n, Len(s)))

\* Block.sub_block(i, n) under the block's cache c: what the call gives
\* and the cache after it
sub_block(b, i, n, c) ==
    IF <<i, n>> \in DOMAIN c THEN [out |-> Returned(c[<<i, n>>]), cache |-> c]
    ELSE LET new_range == sub_range(b.relative_range, i, n, b.orientation)
             made == Block_new(b.table, new_range, b.orientation,
                               Slice0(b.vector_types, i, n))
         IN  IF made.raised # "" THEN [out |-> made, cache |-> c]
             ELSE [out |-> made, cache |-> (<<i, n>> :> made.value) @@ c]

\* Block.__iter__ from vector i on: the blocks yielded, until a call raises
RECURSIVE iter(_, _, _, _)
iter(b, i, yielded, c) ==
    IF i >= vector_count(b) THEN [out |-> Returned(yielded), cache |-> c]
    ELSE LET step == sub_block(b, i, 1, c)
         IN  IF step.out.raised # "" THEN step
             ELSE iter(b, i + 1, Append(yielded, step.out.value), step.cache)

Block_overlaps_with(a, b) ==
    a.table = b.table /\ Range_overlaps_with(a.relative_range, b.relative_range)

is_sub_block(a, b) ==
    a.table = b.table /\ Range_contains(a.relative_range, b.relative_range)

Block_eq(a, b) ==
    /\ a.table = b.table
    /\ a.orientation = b.orientation
    /\ Range_eq(a.relative_range, b.relative_range)

\* Table.__lt__ and the str < on orientations: by name
TableNames == <<"T1", "T2", "T3">>
NameRank(n) == CHOOSE i \in DOMAIN TableNames : TableNames[i] = n
OrientationRank(o) == IF o = "horizontal" THEN 1 ELSE 2

\* Python's tuple <: the first position that differs decides
RECURSIVE TupleLt(_, _)
TupleLt(s, t) ==
    IF s = <<>> THEN FALSE
    ELSE IF Head(s) = Head(t) THEN TupleLt(Tail(s), Tail(t))
    ELSE Head(s) < Head(t)

BlockKey(b) ==
    <<NameRank(b.table), OrientationRank(b.orientation), vector_index(b),
      vector_count(b), vector_length(b)>>

Block_lt(a, b) == TupleLt(BlockKey(a), BlockKey(b))

----------------------------------------------------------------------------
(* The Group interface the validators use, on blocks                      *)

Group_row(b) == b.orientation = "horizontal"
vectors(b) == vector_count(b)
length(b) == vector_length(b)
Group_rows(b) == b.relative_range.height
Group_columns(b) == b.relative_range.width

\* the cell of table t at table-relative column c, row w (both from 0)
CellAt(t, c, w) == cells[t][w + 1][c + 1]

\* vector_subset(i, j): vectors i..j of the block, counted from 1
vector_subset(b, i, j) ==
    Block(b.table,
          IF b.orientation = "vertical"
          THEN Range(x0(b.relative_range) + i - 1, y0(b.relative_range),
                     j - i + 1, b.relative_range.height)
          ELSE Range(x0(b.relative_range), y0(b.relative_range) + i - 1,
                     b.relative_range.width, j - i + 1),
          b.orientation,
          SubSeq(b.vector_types, i, j))

\* iterating a block: its vectors, each a block of one vector
Vectors(b) == {vector_subset(b, i, i) : i \in 1..vectors(b)}

\* get_vector(i): the data of vector i (from 1) as a sequence
get_vector(b, i) ==
    LET r == b.relative_range IN
    IF b.orientation = "vertical"
    THEN [k \in 1..r.height |-> CellAt(b.table, x0(r) + i - 1, y0(r) + k - 1)]
    ELSE [k \in 1..r.width |-> CellAt(b.table, x0(r) + k - 1, y0(r) + i - 1)]

to_data(v) == get_vector(v, 1)

\* is_partial / has_blanks: some cell of the block is blank
is_partial(b) ==
    \E i \in 1..vectors(b) :
        \E k \in 1..length(b) : ~blank_filter(get_vector(b, i)[k])

\* the type the preprocessing gives a vector from its cells
VectorType(data) ==
    LET filled == {k \in DOMAIN data : blank_filter(data[k])} IN
    IF \E k \in filled : data[k].k = "str" THEN "string"
    ELSE IF \A k \in filled : data[k].v % 100 = 0 THEN "int"
    ELSE "float"

\* a block over a range of a table, typed from the table's cells
MakeBlock(data, table, r, orientation) ==
    LET n == Range_vector_count(r, orientation)
        vec(i) ==
            IF orientation = "vertical"
            THEN [k \in 1..r.height |-> data[y0(r) + k][x0(r) + i]]
            ELSE [k \in 1..r.width |-> data[y0(r) + i][x0(r) + k]]
    IN  Block(table, r, orientation, [i \in 1..n |-> VectorType(vec(i))])

----------------------------------------------------------------------------
(* Variables, filters and the template catalogue *)

integer == {"int"}
numeric == {"int", "float"}
textual == {"string"}
discrete == {"string", "int"}
any_type == {"int", "float", "string"}

Variable(name, vector, types) == [name |-> name, vector |-> vector, types |-> types]

NoSize == [rows |-> -1, cols |-> -1, length |-> -1, vectors |-> -1, max_size |-> FALSE]
NoSub == [f |-> "NoFilter", vars |-> <<>>, size |-> NoSize, orientation |-> "", min_vectors |-> 0]

Filter(f, variables) ==
    [f |-> f, vars |-> variables, size |-> NoSize, sub |-> NoSub,
     orientation |-> "", min_vectors |-> 0]

SameLength(v) == Filter("SameLength", v)
SameTable(v) == Filter("SameTable", v)
SameOrientation(v) == Filter("SameOrientation", v)
SameType(v) == Filter("SameType", v)
NotPartial(v) == Filter("NotPartial", v)
Partial(v) == Filter("Partial", v)
Not(original) == [Filter("Not", original.vars) EXCEPT !.sub = original]
SizeFilter(v, size) == [Filter("SizeFilter", v) EXCEPT !.size = size]
AggregateLength(v, orientation, min_vectors) ==
    [Filter("AggregateLength", v) EXCEPT
        !.orientation = orientation, !.min_vectors = min_vectors]

\* the property of a group that a Same... filter compares
Property(fl, g) ==
    CASE fl.f = "SameLength" -> <<length(g)>>
      [] fl.f = "SameTable" -> <<g.table>>
      [] fl.f = "SameOrientation" -> <<Group_row(g)>>
      [] fl.f = "SameType" -> <<dtype(g)>>

\* Filter.test_same: the property agrees on every pair of the filter's variables
test_same(fl, a) ==
    \A i \in DOMAIN fl.vars : \A j \in DOMAIN fl.vars :
        i < j => Property(fl, a[fl.vars[i]]) = Property(fl, a[fl.vars[j]])

\* SizeFilter.test: every stated size is met (>=, or <= with max_size)
SizeOp(fl, x, y) == IF fl.size.max_size THEN x <= y ELSE x >= y

SizeFilter_test(fl, a) ==
    \A i \in DOMAIN fl.vars :
        LET g == a[fl.vars[i]] IN
        /\ fl.size.rows = -1 \/ SizeOp(fl, Group_rows(g), fl.size.rows)
        /\ fl.size.cols = -1 \/ SizeOp(fl, Group_columns(g), fl.size.cols)
        /\ fl.size.length = -1 \/ SizeOp(fl, length(g), fl.size.length)
        /\ fl.size.vectors = -1 \/ SizeOp(fl, vectors(g), fl.size.vectors)

\* a length filter that forgets the least number of vectors
AggregateLength_test_any_vectors(fl, a) ==
    LET x_group == a[fl.vars[1]]
        y_group == a[fl.vars[2]]
        size == IF fl.orientation = "vertical"
                THEN Group_columns(x_group) ELSE Group_rows(x_group)
        o_match == Group_row(x_group) = (fl.orientation = "horizontal")
    IN  IF o_match THEN length(y_group) <= size
        ELSE length(y_group) = size

\* the length filter Aggregate.__init__ builds (test)
AggregateLength_test(fl, a) ==
    LET x_group == a[fl.vars[1]]
        y_group == a[fl.vars[2]]
        size == IF fl.orientation = "vertical"
                THEN Group_columns(x_group) ELSE Group_rows(x_group)
        o_match == Group_row(x_group) = (fl.orientation = "horizontal")
    IN  IF ~o_match /\ vectors(x_group) < fl.min_vectors THEN FALSE
        ELSE IF o_match THEN length(y_group) <= size
        ELSE length(y_group) = size

PrimitiveTest(fl, a) ==
    CASE fl.f \in {"SameLength", "SameTable", "SameOrientation", "SameType"} ->
             test_same(fl, a)
      [] fl.f = "NotPartial" -> ~ \E i \in DOMAIN fl.vars : is_partial(a[fl.vars[i]])
      [] fl.f = "Partial" -> \A i \in DOMAIN fl.vars : is_partial(a[fl.vars[i]])
      [] fl.f = "SizeFilter" -> SizeFilter_test(fl, a)
      [] fl.f = "AggregateLength" -> AggregateLength_test(fl, a)
      [] fl.f = "NoFilter" -> TRUE

\* Filter.test, with the one combinator the catalogue uses (Not)
FilterTest(fl, a) ==
    IF fl.f = "Not" THEN ~PrimitiveTest(fl.sub, a) ELSE PrimitiveTest(fl, a)

\* Source(variables) and ConstraintSource(variables, constraint, dictionary)
FreeSource == [constraint |-> "", dictionary |-> <<>>]
ConstraintSource(constraint, dictionary) ==
    [constraint |-> constraint, dictionary |-> dictionary]

\* a template that leaves the template of its source out of depends_on
Constraint_without_source(name, variables, source, filters, depends_on) ==
    [name |-> name, variables |-> variables, source |-> source,
     filters |-> filters,
     depends_on |-> depends_on,
     orientation |-> "", operation |-> "", min_vectors |-> 0,
     default |-> Whole(0)]

Constraint(name, variables, source, filters, depends_on) ==
    [name |-> name, variables |-> variables, source |-> source,
     filters |-> filters,
     depends_on |-> depends_on \cup
        (IF source.constraint = "" THEN {} ELSE {source.constraint}),
     orientation |-> "", operation |-> "", min_vectors |-> 0,
     default |-> Whole(0)]

VarX == Variable("X", FALSE, numeric)

AllDifferent ==
    Constraint("all-different", <<Variable("X", FALSE, discrete)>>, FreeSource,
               <<NotPartial(<<"X">>)>>, {})

Permutation ==
    Constraint("permutation", <<VarX>>,
               ConstraintSource("all-different", [k \in {"X"} |-> "X"]),
               <<NotPartial(<<"X">>)>>, {})

Series ==
    Constraint("series", <<VarX>>,
               ConstraintSource("permutation", [k \in {"X"} |-> "X"]),
               <<NotPartial(<<"X">>)>>, {})

Rank ==
    Constraint("rank",
               <<Variable("X", TRUE, numeric), Variable("Y", TRUE, integer)>>,
               FreeSource,
               <<SameLength(<<"X", "Y">>), NotPartial(<<"X", "Y">>)>>, {"equal"})

ForeignKey ==
    Constraint("foreign-key",
               <<Variable("PK", TRUE, discrete), Variable("FK", TRUE, discrete)>>,
               ConstraintSource("all-different", [k \in {"X"} |-> "PK"]),
               <<Not(SameTable(<<"PK", "FK">>)), SameType(<<"PK", "FK">>),
                 NotPartial(<<"PK">>)>>, {})

LookupVariables ==
    <<Variable("OK", TRUE, discrete), Variable("OV", TRUE, any_type),
      Variable("FK", TRUE, discrete), Variable("FV", TRUE, any_type)>>

Lookup ==
    Constraint("lookup", LookupVariables,
               ConstraintSource("foreign-key",
                   [k \in {"PK", "FK"} |-> IF k = "PK" THEN "OK" ELSE "FK"]),
               <<SameType(<<"OV", "FV">>), NotPartial(<<"OK", "OV", "FK", "FV">>),
                 SameLength(<<"FK", "FV">>), SameLength(<<"OK", "OV">>),
                 SameTable(<<"FK", "FV">>), SameTable(<<"OK", "OV">>),
                 SameOrientation(<<"FK", "FV">>), SameOrientation(<<"OK", "OV">>)>>,
               {"equal"})

ConditionalAggregate(operation) ==
    [Constraint(operation \o "-if",
               <<Variable("OK", TRUE, discrete), Variable("R", TRUE, numeric),
                 Variable("FK", TRUE, discrete), Variable("V", TRUE, numeric)>>,
               ConstraintSource("all-different", [k \in {"X"} |-> "OK"]),
               <<SameLength(<<"OK", "R">>), SameLength(<<"FK", "V">>),
                 SameTable(<<"FK", "V">>), Not(SameTable(<<"FK", "OK">>)),
                 NotPartial(<<"OK">>), SameType(<<"FK", "OK">>),
                 SameOrientation(<<"OK", "R">>), SameOrientation(<<"FK", "V">>)>>,
               {"lookup"})
     EXCEPT !.operation = operation]

Projection ==
    Constraint("project",
               <<Variable("R", TRUE, any_type), Variable("P", FALSE, any_type)>>,
               FreeSource,
               <<SameLength(<<"R", "P">>), SameOrientation(<<"R", "P">>),
                 SameTable(<<"R", "P">>), SameType(<<"R", "P">>),
                 SizeFilter(<<"P">>, [NoSize EXCEPT !.vectors = 2]),
                 Partial(<<"P">>)>>, {})

Equal ==
    Constraint("equal",
               <<Variable("O1", TRUE, any_type), Variable("O2", TRUE, any_type)>>,
               FreeSource,
               <<SameLength(<<"O1", "O2">>), SameType(<<"O1", "O2">>)>>, {})

EqualGroup ==
    Constraint("equal-group", <<Variable("X", FALSE, any_type)>>, FreeSource,
               <<SizeFilter(<<"X">>, [NoSize EXCEPT !.vectors = 2])>>, {})

AggregateMinVectors(operation) == IF operation \in {"product", "sum"} THEN 3 ELSE 2

Aggregate(orientation, operation) ==
    [Constraint(operation \o (IF orientation = "vertical" THEN " (col)" ELSE " (row)"),
               <<VarX, Variable("Y", TRUE, numeric)>>, FreeSource,
               <<SizeFilter(<<"X">>,
                    IF orientation = "vertical"
                    THEN [NoSize EXCEPT !.rows = 2] ELSE [NoSize EXCEPT !.cols = 2]),
                 AggregateLength(<<"X", "Y">>, orientation,
                                 AggregateMinVectors(operation))>>,
               {"equal", "project"})
     EXCEPT !.orientation = orientation, !.operation = operation,
            !.min_vectors = AggregateMinVectors(operation)]

\* the catalogue, in name order (the tie-break of the visiting order)
Catalogue ==
    <<AllDifferent, Equal, ForeignKey, Lookup,
      Aggregate("vertical", "max"), Aggregate("horizontal", "max"),
      ConditionalAggregate("max"), Permutation, Projection, Rank, Series,
      Aggregate("vertical", "sum"), Aggregate("horizontal", "sum"),
      ConditionalAggregate("sum")>>

Template(name) ==
    IF name = EqualGroup.name THEN EqualGroup
    ELSE Catalogue[CHOOSE i \in DOMAIN Catalogue : Catalogue[i].name = name]

VarNames(c) == {c.variables[i].name : i \in DOMAIN c.variables}

----------------------------------------------------------------------------
(* Solutions store *)

get_solutions(st, name) ==
    UNION {st[i].solutions : i \in {j \in DOMAIN st : st[j].template = name}}

\* has(template, keys, blocks): some stored instance binds keys[i] to blocks[i]
has(st, name, keys, blks) ==
    \E sol \in get_solutions(st, name) :
        \A i \in DOMAIN keys : sol[keys[i]] = blks[i]

has_solution(st, name, sol) == sol \in get_solutions(st, name)

\* every stored instance, tagged with its template
AllConstraints(st) ==
    UNION {{[template |-> st[i].template, assignment |-> sol] :
                sol \in st[i].solutions} : i \in DOMAIN st}

----------------------------------------------------------------------------
(* Assignment generation: Source.candidates / Source._complete *)

\* a domain that leaves the types out
Domain_untyped(v, seed, groups) ==
    IF v.name \in DOMAIN seed THEN {seed[v.name]} ELSE groups

\* the domain try_assignment gives variable v under a seed
Domain(v, seed, groups) ==
    LET candidates == IF v.name \in DOMAIN seed THEN {seed[v.name]} ELSE groups
    IN  {g \in candidates : dtype(g) \in v.types}

\* the problem's search space: every variable bound to a group of its domain
RECURSIVE Bindings(_, _, _)
Bindings(variables, seed, groups) ==
    IF variables = <<>> THEN {<<>>}
    ELSE LET rest == Bindings(Tail(variables), seed, groups)
         IN  UNION {{(Head(variables).name :> g) @@ a : a \in rest} :
                       g \in Domain(Head(variables), seed, groups)}

\* a try_assignment that stops at an empty domain of a seeded variable and
\* goes on at one of a variable the seed leaves free
try_assignment_stop_on_seeded(c, seed, groups) ==
    LET empty == {i \in DOMAIN c.variables :
                      Domain(c.variables[i], seed, groups) = {}}
    IN  IF empty # {}
        THEN LET first == CHOOSE i \in empty : \A j \in empty : i <= j
             IN  [resume |-> c.variables[first].name \notin DOMAIN seed,
                  solutions |-> {}]
        ELSE [resume |-> TRUE,
              solutions |->
                {a \in Bindings(c.variables, seed, groups) :
                    \A i \in DOMAIN c.filters : FilterTest(c.filters[i], a)}]

\* try_assignment: (resume, solutions) for one seed
try_assignment(c, seed, groups) ==
    LET empty == {i \in DOMAIN c.variables :
                      Domain(c.variables[i], seed, groups) = {}}
    IN  IF empty # {}
        THEN LET first == CHOOSE i \in empty : \A j \in empty : i <= j
             IN  [resume |-> c.variables[first].name \in DOMAIN seed,
                  solutions |-> {}]
        ELSE [resume |-> TRUE,
              solutions |->
                {a \in Bindings(c.variables, seed, groups) :
                    \A i \in DOMAIN c.filters : FilterTest(c.filters[i], a)}]

\* _complete: a seed that does not resume empties the whole result
complete(c, seeds, groups) ==
    IF \E seed \in seeds : ~try_assignment(c, seed, groups).resume THEN {}
    ELSE UNION {try_assignment(c, seed, groups).solutions : seed \in seeds}

\* the loop of _complete from seed k of the list on: what it returns, and
\* the number of seeds try_assignment was called on
RECURSIVE _complete(_, _, _, _, _)
_complete(c, assignments, groups, k, found) ==
    IF k > Len(assignments) THEN [result |-> found, tried |-> Len(assignments)]
    ELSE LET try == try_assignment(c, assignments[k], groups)
         IN  IF ~try.resume THEN [result |-> {}, tried |-> k]
             ELSE _complete(c, assignments, groups, k + 1, found \cup try.solutions)

\* ConstraintSource.candidates: each prerequisite solution, renamed
rename(sol, dictionary) ==
    [n \in {dictionary[k] : k \in DOMAIN sol} |->
        sol[CHOOSE k \in DOMAIN sol : dictionary[k] = n]]

\* seeds that ignore the prerequisite template
Seeds_unseeded(c, st) == {<<>>}

Seeds(c, st) ==
    IF c.source.constraint = "" THEN {<<>>}
    ELSE {rename(sol, c.source.dictionary) :
              sol \in get_solutions(st, c.source.constraint)}

candidates(c, groups, st) == complete(c, Seeds(c, st), groups)

----------------------------------------------------------------------------
(* Validation strategies: helpers *)

PyIn(x, S) == \E y \in S : PyEq(x, y)

\* ordered(x, y): no argument is smaller than the one before it
ordered(x, y) == ~Block_lt(y, x)

found_equal(v1, v2, st) ==
    IF Block_lt(v1, v2)
    THEN has(st, "equal", <<"O1", "O2">>, <<v1, v2>>)
    ELSE has(st, "equal", <<"O1", "O2">>, <<v2, v1>>)

\* the overlap test of _generate_test_vectors over a tuple of vectors
NoOverlap(f, keys) ==
    \A i \in DOMAIN keys : \A j \in DOMAIN keys :
        i < j => ~Block_overlaps_with(f[keys[i]], f[keys[j]])

\* itertools.product of the vectors of the blocks bound to keys
RECURSIVE VectorProduct(_, _)
VectorProduct(a, keys) ==
    IF keys = <<>> THEN {<<>>}
    ELSE LET rest == VectorProduct(a, Tail(keys))
         IN  UNION {{(Head(keys) :> v) @@ f : f \in rest} :
                       v \in Vectors(a[Head(keys)])}

\* _generate_test_vectors, before test_groups: the tuples of vectors of the
\* assignments with no two overlapping
_generate_test_vectors(assignments, keys) ==
    UNION {{f \in VectorProduct(a, keys) : NoOverlap(f, keys)} : a \in assignments}

----------------------------------------------------------------------------
(* Validation strategies: AllDifferent, Permutation, Series *)

\* a series test that only asks for the first cell to be 1
test_series_first_only(f) == PyEq(to_data(f["X"])[1], Whole(1))

test_series(f) ==
    LET x == to_data(f["X"]) IN
    \A i \in DOMAIN x : PyEq(x[i], Whole(i))

test_all_different(f) ==
    LET x == to_data(f["X"]) IN
    /\ dtype(f["X"]) \in {"string", "int"}
    /\ \A i \in DOMAIN x : \A j \in DOMAIN x : i < j => ~PyEq(x[i], x[j])

\* number_set shrinks as values are met: each of 1..len at most once
test_permutation(f) ==
    LET x == to_data(f["X"]) IN
    /\ \A i \in DOMAIN x : \E n \in 1..Len(x) : PyEq(x[i], Whole(n))
    /\ \A i \in DOMAIN x : \A j \in DOMAIN x : i < j => ~PyEq(x[i], x[j])

series(c, assignments, st) ==
    {f \in _generate_test_vectors(assignments, <<"X">>) : test_series(f)}

all_different(c, assignments, st) ==
    {f \in _generate_test_vectors(assignments, <<"X">>) : test_all_different(f)}

permutation(c, assignments, st) ==
    {f \in _generate_test_vectors(assignments, <<"X">>) : test_permutation(f)}

----------------------------------------------------------------------------
(* Validation strategies: Rank *)

\* sorted(a, reverse=True) on the numbers of a
RECURSIVE SortedDesc(_)
SortedDesc(a) ==
    IF a = <<>> THEN <<>>
    ELSE LET m == SeqMax(a)
             i == CHOOSE k \in DOMAIN a : a[k] = m /\ \A j \in 1..(k - 1) : a[j] # m
         IN  <<m>> \o SortedDesc(SubSeq(a, 1, i - 1) \o SubSeq(a, i + 1, Len(a)))

\* the loop of rank_data over the sorted values: table maps a value to its rank
RECURSIVE RankTable(_, _, _, _)
RankTable(initial, i, table, counter) ==
    IF i > Len(initial) THEN table
    ELSE IF initial[i] = initial[i - 1]
         THEN RankTable(initial, i + 1, table, counter + 1)
         ELSE RankTable(initial, i + 1,
                        (initial[i] :> (table[initial[i - 1]] + counter)) @@ table,
                        1)

\* a ranking in which ties do not skip the next rank
rank_data_dense(a) ==
    [e \in DOMAIN a |-> 1 + Cardinality({a[j] : j \in {k \in DOMAIN a : a[k] > a[e]}})]

rank_data(a) ==
    LET initial == SortedDesc(a)
        table == RankTable(initial, 2, initial[1] :> 1, 1)
    IN  [e \in DOMAIN a |-> table[a[e]]]

is_rank(f, st) ==
    LET y == to_data(f["Y"])
        x == to_data(f["X"])
        cutoff == Min2(Len(y), 5)
        ranked == rank_data([i \in DOMAIN x |-> x[i].v])
    IN  /\ \A i \in 1..cutoff : ~(y[i].v < 100 \/ y[i].v > Len(x) * 100)
        /\ \A i \in DOMAIN ranked : ranked[i] * 100 = y[i].v
        /\ ~found_equal(f["Y"], f["X"], st)

rank(c, assignments, st) ==
    {f \in _generate_test_vectors(assignments, <<"Y", "X">>) : is_rank(f, st)}

----------------------------------------------------------------------------
(* Validation strategies: ForeignKey, Lookup *)

test_foreign_key(f) ==
    LET fk == to_data(f["FK"])
        pk_set == Range1(to_data(f["PK"]))
    IN  \A i \in DOMAIN fk : ~(blank_filter(fk[i]) /\ ~PyIn(fk[i], pk_set))

foreign_keys(c, assignments, st) ==
    {f \in _generate_test_vectors(assignments, <<"PK", "FK">>) : test_foreign_key(f)}

\* dict(zip(keys, values)): a later pair replaces an earlier one of the same key
DictHas(ks, key) == \E i \in DOMAIN ks : PyEq(ks[i], key)
DictGet(ks, vs, key) ==
    vs[CHOOSE i \in DOMAIN ks :
          PyEq(ks[i], key) /\ \A j \in DOMAIN ks : PyEq(ks[j], key) => j <= i]

\* a lookup test that only asks for the keys to be present
is_lookup_keys_only(ref_keys, ref_values, keys, values) ==
    Len(keys) = Len(values) /\ \A i \in DOMAIN keys : DictHas(ref_keys, keys[i])

is_lookup(ref_keys, ref_values, keys, values) ==
    IF Len(keys) # Len(values) THEN FALSE
    ELSE \A i \in DOMAIN keys :
            /\ DictHas(ref_keys, keys[i])
            /\ PyEq(DictGet(ref_keys, ref_values, keys[i]), values[i])

lookup_accepts(f, st) ==
    /\ ~Block_overlaps_with(f["OK"], f["OV"])
    /\ ~(found_equal(f["OK"], f["FK"], st) /\ found_equal(f["OV"], f["FV"], st))
    /\ ~ \E g1 \in {f["OK"], f["OV"]} : \E g2 \in {f["FK"], f["FV"]} :
            Block_overlaps_with(g1, g2)
    /\ ~Block_overlaps_with(f["FK"], f["FV"])
    /\ is_lookup(to_data(f["OK"]), to_data(f["OV"]),
                 to_data(f["FK"]), to_data(f["FV"]))

lookups(c, assignments, st) ==
    UNION {{f \in VectorProduct(a, <<"OK", "OV", "FK", "FV">>) : lookup_accepts(f, st)} :
               a \in assignments}

----------------------------------------------------------------------------
(* Validation strategies: FuzzyLookup, Product, PercentualDiff *)

\* the quotient num / den rounded half to even to a whole number
RoundRatio(num, den) ==
    LET n == IF den < 0 THEN -num ELSE num
        d == IF den < 0 THEN -den ELSE den
        q == n \div d
        r == n % d
    IN  IF 2 * r < d THEN q
        ELSE IF 2 * r > d THEN q + 1
        ELSE IF q % 2 = 0 THEN q ELSE q + 1

\* the step, in hundredths, of the last digit precision_and_scale keeps
Unit(n) ==
    IF precision_and_scale(n) = 0 THEN 100
    ELSE IF precision_and_scale(n) = 1 THEN 10 ELSE 1

NoIndex == -1

\* find_fuzzy: the place (from 0) of the last key not above element
find_fuzzy(element, collection) ==
    IF element.v < collection[1].v THEN NoIndex
    ELSE LET above == {i \in 2..Len(collection) : element.v < collection[i].v}
         IN  IF above # {} THEN (CHOOSE i \in above : \A j \in above : i <= j) - 2
             ELSE Len(collection) - 1

\* a test that does not look in the store at the end
fuzzy_test_equal_unpruned(ok_v, ov_v, fk_v, fv_v, st) ==
    IF /\ found_equal(ok_v, fk_v, st)
       /\ found_equal(ov_v, fv_v, st)
       /\ found_equal(ok_v, ov_v, st)
    THEN FALSE
    ELSE LET ok == to_data(ok_v)
             ov == to_data(ov_v)
             fk == to_data(fk_v)
             fv == to_data(fv_v)
             index(i) == find_fuzzy(fk[i], ok)
         IN  IF \E i \in DOMAIN fk :
                    index(i) = NoIndex \/ ~equal(ov[index(i) + 1], fv[i])
             THEN FALSE
             ELSE \E i \in DOMAIN fk : ~PyEq(ok[index(i) + 1], fk[i])

fuzzy_test_equal(ok_v, ov_v, fk_v, fv_v, st) ==
    IF /\ found_equal(ok_v, fk_v, st)
       /\ found_equal(ov_v, fv_v, st)
       /\ found_equal(ok_v, ov_v, st)
    THEN FALSE
    ELSE LET ok == to_data(ok_v)
             ov == to_data(ov_v)
             fk == to_data(fk_v)
             fv == to_data(fv_v)
             index(i) == find_fuzzy(fk[i], ok)
         IN  IF \E i \in DOMAIN fk :
                    index(i) = NoIndex \/ ~equal(ov[index(i) + 1], fv[i])
             THEN FALSE
             ELSE /\ \E i \in DOMAIN fk : ~PyEq(ok[index(i) + 1], fk[i])
                  /\ ~found_equal(ok_v, fk_v, st)
                  /\ ~found_equal(ov_v, fv_v, st)

\* a product test that takes a zero in O1 for a product by zero
is_product_zero_as_product(r_v, o1_v, o2_v) ==
    IF ~ordered(o1_v, o2_v) THEN FALSE
    ELSE LET r == to_data(r_v)
             o1 == to_data(o1_v)
             o2 == to_data(o2_v)
         IN  \A i \in DOMAIN r :
                IF Block_lt(o2_v, r_v) \/ o1[i].v = 0
                THEN equal(r[i], Num(RoundRatio(o1[i].v * o2[i].v, 100 * Unit(r[i].v))
                                        * Unit(r[i].v)))
                ELSE equal(o2[i], Num(RoundRatio(r[i].v * 100, o1[i].v * Unit(o2[i].v))
                                         * Unit(o2[i].v)))

\* is_product: R = O1 * O2 when R sorts after O2, else O2 = R / O1, each
\* rounded to the digits of the value expected
is_product(r_v, o1_v, o2_v) ==
    IF ~ordered(o1_v, o2_v) THEN FALSE
    ELSE LET r == to_data(r_v)
             o1 == to_data(o1_v)
             o2 == to_data(o2_v)
         IN  \A i \in DOMAIN r :
                IF Block_lt(o2_v, r_v)
                THEN equal(r[i], Num(RoundRatio(o1[i].v * o2[i].v, 100 * Unit(r[i].v))
                                        * Unit(r[i].v)))
                ELSE IF o1[i].v # 0
                THEN equal(o2[i], Num(RoundRatio(r[i].v * 100, o1[i].v * Unit(o2[i].v))
                                         * Unit(o2[i].v)))
                ELSE FALSE

\* is_diff of percent_diff: R = (O1 - O2) / O2 rounded to the digits of R
percent_diff_is_diff(r_v, o1_v, o2_v, st) ==
    LET r == to_data(r_v)
        o1 == to_data(o1_v)
        o2 == to_data(o2_v)
    IN  /\ \A i \in DOMAIN r :
              /\ o2[i].v # 0
              /\ equal(r[i], Num(RoundRatio((o1[i].v - o2[i].v) * 100,
                                            o2[i].v * Unit(r[i].v)) * Unit(r[i].v)))
        /\ ~found_equal(o1_v, o2_v, st)

----------------------------------------------------------------------------
(* Validation strategies: Equal *)

\* test of equality.  The equal_map shortcut answers True only for two
\* vectors already found element-wise equal to a common third, so with exact
\* cell equality the verdict is the element-wise one, whatever the order of
\* the candidates.
equality_test(f) ==
    LET x == to_data(f["O1"])
        y == to_data(f["O2"])
    IN  /\ ordered(f["O1"], f["O2"])
        /\ \A i \in DOMAIN x : equal(x[i], y[i])

equality(c, assignments, st) ==
    {f \in _generate_test_vectors(assignments, <<"O1", "O2">>) : equality_test(f)}

----------------------------------------------------------------------------
(* Validation strategies: ConditionalAggregate *)

\* Operation.aggregate on one-dimensional data (partial: blanks are dropped)
OperationFunc(operation, ns) ==
    CASE operation = "sum" -> SeqSum(ns)
      [] operation = "max" -> SeqMax(ns)
      [] operation = "min" -> SeqMin(ns)

Operation_aggregate(operation, data, partial) ==
    LET keep == [i \in DOMAIN data |-> blank_filter(data[i])]
        filled == Select(data, keep, 1)
    IN  IF partial
        THEN IF filled = <<>> THEN NaN
             ELSE Num(OperationFunc(operation, [i \in DOMAIN filled |-> filled[i].v]))
        ELSE IF Len(filled) # Len(data) THEN NaN
             ELSE Num(OperationFunc(operation, [i \in DOMAIN data |-> data[i].v]))

\* overlap[{ok, fk}]: the two value sets share a value
key_overlap(ok_v, fk_v) ==
    \E x \in Range1(to_data(ok_v)) : PyIn(x, Range1(to_data(fk_v)))

\* a result that takes the first value under the key for all of them
conditional_result_first(c, ok, fk, v, i) ==
    IF ~ \E j \in DOMAIN fk : blank_filter(fk[j]) /\ PyEq(fk[j], ok[i])
    THEN c.default
    ELSE v[CHOOSE j \in DOMAIN fk :
               /\ PyEq(fk[j], ok[i])
               /\ \A k \in 1..(j - 1) : ~PyEq(fk[k], ok[i])]

\* the expected result for key ok[i], before rounding
conditional_result(c, ok, fk, v, i) ==
    IF ~ \E j \in DOMAIN fk : blank_filter(fk[j]) /\ PyEq(fk[j], ok[i])
    THEN c.default
    ELSE LET mask == [j \in DOMAIN fk |-> PyEq(fk[j], ok[i])]
             data == Select(v, mask, 1)
         IN  IF Len(data) > 0 THEN Operation_aggregate(c.operation, data, TRUE)
             ELSE c.default

\* a test that does not look for earlier findings in the store
is_aggregate_unpruned(c, f, st) ==
    LET ok == to_data(f["OK"])
        r == to_data(f["R"])
        fk == to_data(f["FK"])
        v == to_data(f["V"])
    IN  /\ key_overlap(f["OK"], f["FK"])
        /\ \A g \in {ok, r, v} : \A i \in DOMAIN g : blank_filter(g[i])
        /\ \A i \in DOMAIN ok :
              LET res == conditional_result(c, ok, fk, v, i)
                  n_digits == precision_and_scale(r[i].v)
              IN  equal(Num(numpy_round(res.v, n_digits)), r[i])
        /\ \E i \in DOMAIN ok :
              \E j \in DOMAIN fk : blank_filter(fk[j]) /\ PyEq(fk[j], ok[i])

is_aggregate(c, f, st) ==
    LET ok == to_data(f["OK"])
        r == to_data(f["R"])
        fk == to_data(f["FK"])
        v == to_data(f["V"])
    IN  /\ key_overlap(f["OK"], f["FK"])
        /\ ~has(st, "foreign-key", <<"FK", "PK">>, <<f["OK"], f["FK"]>>)
        /\ ~has(st, "foreign-key", <<"FK", "PK">>, <<f["R"], f["V"]>>)
        /\ \A g \in {ok, r, v} : \A i \in DOMAIN g : blank_filter(g[i])
        /\ \A i \in DOMAIN ok :
              LET res == conditional_result(c, ok, fk, v, i)
                  n_digits == precision_and_scale(r[i].v)
              IN  equal(Num(numpy_round(res.v, n_digits)), r[i])
        /\ ~has(st, "lookup", <<"FV", "FK", "OK", "OV">>,
                <<f["FK"], f["V"], f["R"], f["OK"]>>)
        /\ \E i \in DOMAIN ok :
              \E j \in DOMAIN fk : blank_filter(fk[j]) /\ PyEq(fk[j], ok[i])

\* assignments with no key overlap at all are dropped before any test
conditional_aggregate(c, assignments, st) ==
    LET new_assignments ==
            {a \in assignments :
                \E ok_v \in Vectors(a["OK"]) : \E fk_v \in Vectors(a["FK"]) :
                    key_overlap(ok_v, fk_v)}
    IN  {f \in _generate_test_vectors(new_assignments, <<"OK", "R", "FK", "V">>) :
            is_aggregate(c, f, st)}

----------------------------------------------------------------------------
(* MaxRange: the sweep over contiguous windows [start, end) of vectors.    *)
(* test is the truth table of the callback; the value is the log of the    *)
(* windows the callback was called on, in call order.                      *)

RECURSIVE _find(_, _, _, _, _, _, _)
_find(start, end, size, limit, last, test, log) ==
    IF last - start < size THEN log
    ELSE IF end - start < size \/ end < limit
         THEN _find(start + 1, last, size, Max2(start + 1 + size, limit), last,
                    test, log)
         ELSE IF test[<<start, end>>]
              THEN _find(start + 1, end, size, limit, last, test,
                         Append(log, <<start, end>>))
              ELSE _find(start, end - 1, size, limit, last, test,
                         Append(log, <<start, end>>))

find(test, start, end, size) ==
    _find(start, end, size, start + size - 1, end, test, <<>>)

\* the windows on which the callback answered True
Accepted(test, log) == {log[i] : i \in {j \in DOMAIN log : test[log[j]]}}

\* the windows [start, end) of n vectors
AllWindows(n) == {w \in (0..n) \X (0..n) : w[1] < w[2]}

\* the windows searched for result vector i (from 0) of a block of n vectors:
\* all of them, or those on either side of i when both blocks are the same
Windows(test, same, i, n, size) ==
    IF same
    THEN Accepted(test, find(test, 0, i, size))
             \cup Accepted(test, find(test, i + 1, n, size))
    ELSE Accepted(test, find(test, 0, n, size))

----------------------------------------------------------------------------
(* Validation strategies: Aggregate, Projection *)

\* to_vector_groups: the vectors of the blocks bound to keys, in order
RECURSIVE to_vector_groups(_, _)
to_vector_groups(solution, keys) ==
    IF keys = <<>> THEN <<>>
    ELSE [i \in 1..vectors(solution[Head(keys)]) |->
              vector_subset(solution[Head(keys)], i, i)]
         \o to_vector_groups(solution, Tail(keys))

\* equal_groups: every pair of the sorted vectors is a stored Equal
\* (sorted is stable: of two vectors neither smaller, the earlier stays first)
equal_groups(st, solution, keys) ==
    LET vs == to_vector_groups(solution, keys) IN
    \A i \in DOMAIN vs : \A j \in DOMAIN vs :
        i < j =>
            IF Block_lt(vs[j], vs[i])
            THEN has_solution(st, "equal", [O1 |-> vs[j], O2 |-> vs[i]])
            ELSE has_solution(st, "equal", [O1 |-> vs[i], O2 |-> vs[j]])

pattern_finder(source, pattern) ==
    IF Len(pattern) > Len(source) THEN {}
    ELSE {i \in 0..(Len(source) - Len(pattern)) :
            \A k \in DOMAIN pattern : equal(source[i + k], pattern[k])}

\* an add that keeps every solution but a stored projection
aggregate_add_equal_kept(st, solution) ==
    ~has_solution(st, "project", [P |-> solution["X"], R |-> solution["Y"]])

\* add: a solution is kept unless it is a stored projection or all equal
aggregate_add(st, solution) ==
    /\ ~has_solution(st, "project", [P |-> solution["X"], R |-> solution["Y"]])
    /\ ~equal_groups(st, solution, <<"X", "Y">>)

\* elements k of vectors start+1..end of block b
Slice(b, start, end, k) == [i \in 1..(end - start) |-> get_vector(b, start + i)[k]]

\* the o_match branch: the aggregate of every vector of X, matched against Y
aggregate_match(c, a, st) ==
    LET x_group == a["X"]
        y_group == a["Y"]
        sums == [i \in 1..vectors(x_group) |->
                    Operation_aggregate(c.operation, get_vector(x_group, i),
                                        is_partial(x_group))]
    IN  {sol \in
            {[X |-> vector_subset(x_group, w[1] + 1, w[1] + length(y_group)),
              Y |-> w[2]] :
                w \in {v \in (0..vectors(x_group)) \X Vectors(y_group) :
                          v[1] \in pattern_finder(sums, to_data(v[2]))}} :
            ~Block_overlaps_with(sol.X, sol.Y) /\ aggregate_add(st, sol)}

\* the other branch: windows of vectors of X aggregated across, against Y
aggregate_check(c, x_group, y_group, y_i, start, end) ==
    \A k \in 1..length(x_group) :
        equal(Operation_aggregate(c.operation, Slice(x_group, start, end, k),
                                  is_partial(x_group)),
              get_vector(y_group, y_i + 1)[k])

aggregate_across(c, a, st) ==
    LET x_group == a["X"]
        y_group == a["Y"]
        n == vectors(x_group)
        found(y_i) ==
            Windows([w \in AllWindows(n) |->
                        aggregate_check(c, x_group, y_group, y_i, w[1], w[2])],
                    Block_eq(y_group, x_group), y_i, n, c.min_vectors)
    IN  {sol \in
            UNION {{[X |-> vector_subset(x_group, w[1] + 1, w[2]),
                     Y |-> vector_subset(y_group, y_i + 1, y_i + 1)] :
                        w \in found(y_i)} : y_i \in 0..(vectors(y_group) - 1)} :
            aggregate_add(st, sol)}

aggregate(c, assignments, st) ==
    UNION {IF Group_row(a["X"]) = (c.orientation = "horizontal")
           THEN aggregate_match(c, a, st)
           ELSE aggregate_across(c, a, st) : a \in assignments}

\* Projection: a window of P with exactly one filled cell at every position
project_mask(p_group, start, end) ==
    \A k \in 1..length(p_group) :
        Cardinality({i \in 1..(end - start) :
                        blank_filter(Slice(p_group, start, end, k)[i])}) = 1

project_equal(r_group, r_i, p_group, start, end) ==
    \A k \in 1..length(p_group) :
        equal(get_vector(r_group, r_i + 1)[k],
              Operation_aggregate("sum", Slice(p_group, start, end, k), TRUE))

project(c, assignments, st) ==
    UNION {LET r_group == a["R"]
               p_group == a["P"]
               n == vectors(p_group)
               test == [w \in AllWindows(n) |-> project_mask(p_group, w[1], w[2])]
           IN  UNION {{[R |-> vector_subset(r_group, r_i + 1, r_i + 1),
                        P |-> vector_subset(p_group, w[1] + 1, w[2])] :
                          w \in {v \in Windows(test, Block_eq(r_group, p_group),
                                               r_i, n, 2) :
                                    project_equal(r_group, r_i, p_group,
                                                  v[1], v[2])}} :
                         r_i \in 0..(vectors(r_group) - 1)} :
           a \in assignments}

----------------------------------------------------------------------------
(* Learning loop *)

\* the strategy registered for a template (add_strategy)
\* equal_group: the windows of vectors of X that are pairwise stored as Equal
equal_group(c, assignments, st) ==
    UNION {LET x == a["X"]
               n == vectors(x)
               test == [w \in AllWindows(n) |->
                           equal_groups(st, [X |-> vector_subset(x, w[1] + 1, w[2])],
                                        <<"X">>)]
           IN  {[X |-> vector_subset(x, w[1] + 1, w[2])] :
                    w \in Windows(test, FALSE, 0, n, 2)} :
           a \in assignments}

strategy(c, assignments, st) ==
    CASE c.name = "all-different" -> all_different(c, assignments, st)
      [] c.name = "equal-group" -> equal_group(c, assignments, st)
      [] c.name = "permutation" -> permutation(c, assignments, st)
      [] c.name = "series" -> series(c, assignments, st)
      [] c.name = "rank" -> rank(c, assignments, st)
      [] c.name = "foreign-key" -> foreign_keys(c, assignments, st)
      [] c.name = "lookup" -> lookups(c, assignments, st)
      [] c.name = "equal" -> equality(c, assignments, st)
      [] c.name = "project" -> project(c, assignments, st)
      [] c.name \in {"sum-if", "max-if"} -> conditional_aggregate(c, assignments, st)
      [] OTHER -> aggregate(c, assignments, st)

\* the visiting order of the enabled templates: a template comes once all it
\* depends on has come; of those ready, the first by name
RECURSIVE TopologicalOrder(_, _)
TopologicalOrder(enabled, placed) ==
    LET ready == {i \in DOMAIN Catalogue :
                     /\ Catalogue[i].name \in enabled
                     /\ Catalogue[i].name \notin Range1(placed)
                     /\ Catalogue[i].depends_on \subseteq Range1(placed)}
    IN  IF ready = {} THEN placed
        ELSE TopologicalOrder(enabled,
                 Append(placed,
                        Catalogue[CHOOSE i \in ready : \A j \in ready : i <= j].name))


\* one turn of the loop for template name: candidates, validation, and the
\* batch appended to the store
Learn(name) ==
    /\ LET c == Template(name)
           assignments == candidates(c, blocks, store)
       IN  store' = Append(store, [template |-> name,
                                   solutions |-> strategy(c, assignments, store)])
    /\ todo' = Tail(todo)
    /\ UNCHANGED <<cells, blocks, result, argv, ret, cache>>

\* the loop is at template name
IsNext(name) == todo # <<>> /\ Head(todo) = name

LearnAllDifferent == IsNext("all-different") /\ Learn("all-different")
LearnPermutation == IsNext("permutation") /\ Learn("permutation")
LearnSeries == IsNext("series") /\ Learn("series")
LearnRank == IsNext("rank") /\ Learn("rank")
LearnForeignKey == IsNext("foreign-key") /\ Learn("foreign-key")
LearnLookup == IsNext("lookup") /\ Learn("lookup")
LearnEqual == IsNext("equal") /\ Learn("equal")
LearnEqualGroup == IsNext("equal-group") /\ Learn("equal-group")
LearnProjection == IsNext("project") /\ Learn("project")
LearnSumIf == IsNext("sum-if") /\ Learn("sum-if")
LearnMaxIf == IsNext("max-if") /\ Learn("max-if")
LearnMaxCol == IsNext("max (col)") /\ Learn("max (col)")
LearnMaxRow == IsNext("max (row)") /\ Learn("max (row)")
LearnSumCol == IsNext("sum (col)") /\ Learn("sum (col)")
LearnSumRow == IsNext("sum (row)") /\ Learn("sum (row)")

----------------------------------------------------------------------------
(* The facade: learn_from_cells, filter_constraints *)

\* the characters of the template names
Chars ==
    [n \in {Catalogue[i].name : i \in DOMAIN Catalogue} |->
        CASE n = "all-different" -> <<"a", "l", "l", "-", "d", "i", "f", "f", "e", "r", "e", "n", "t">>
          [] n = "equal" -> <<"e", "q", "u", "a", "l">>
          [] n = "foreign-key" -> <<"f", "o", "r", "e", "i", "g", "n", "-", "k", "e", "y">>
          [] n = "lookup" -> <<"l", "o", "o", "k", "u", "p">>
          [] n = "max (col)" -> <<"m", "a", "x", " ", "(", "c", "o", "l", ")">>
          [] n = "max (row)" -> <<"m", "a", "x", " ", "(", "r", "o", "w", ")">>
          [] n = "max-if" -> <<"m", "a", "x", "-", "i", "f">>
          [] n = "permutation" -> <<"p", "e", "r", "m", "u", "t", "a", "t", "i", "o", "n">>
          [] n = "project" -> <<"p", "r", "o", "j", "e", "c", "t">>
          [] n = "rank" -> <<"r", "a", "n", "k">>
          [] n = "series" -> <<"s", "e", "r", "i", "e", "s">>
          [] n = "sum (col)" -> <<"s", "u", "m", " ", "(", "c", "o", "l", ")">>
          [] n = "sum (row)" -> <<"s", "u", "m", " ", "(", "r", "o", "w", ")">>
          [] n = "sum-if" -> <<"s", "u", "m", "-", "i", "f">>]

\* fnmatch.fnmatch(name, pattern) for patterns of characters, * and ?
RECURSIVE fnmatch(_, _)
fnmatch(name, pattern) ==
    IF pattern = <<>> THEN name = <<>>
    ELSE IF Head(pattern) = "*"
         THEN \/ fnmatch(name, Tail(pattern))
              \/ name # <<>> /\ fnmatch(Tail(name), pattern)
         ELSE /\ name # <<>>
              /\ Head(pattern) = "?" \/ Head(pattern) = Head(name)
              /\ fnmatch(Tail(name), Tail(pattern))

\* a pattern: a string (its characters) or a template class
Glob(text) == [kind |-> "str", text |-> text, class |-> ""]
Class(name) == [kind |-> "class", text |-> <<>>, class |-> name]

\* the class of a template
ClassOf(name) ==
    CASE name \in {"max (col)", "max (row)", "sum (col)", "sum (row)"} -> "Aggregate"
      [] name \in {"max-if", "sum-if"} -> "ConditionalAggregate"
      [] OTHER -> name

\* Constraint.is_formula: the template computes one of its variables
is_formula(c) ==
    c.template \notin {"all-different", "permutation", "series", "foreign-key"}

PyInArgs(text, args) ==
    \E i \in DOMAIN args : args[i].kind = "str" /\ args[i].text = text

\* a check whose constraint sentinel lets the formulas through as well
check_without_not(c, args) ==
    \/ PyInArgs(<<"<", "f", ">">>, args) /\ is_formula(c)
    \/ PyInArgs(<<"<", "c", ">">>, args)
    \/ \E i \in DOMAIN args :
          IF args[i].kind = "str"
          THEN fnmatch(Chars[c.template], args[i].text)
          ELSE ClassOf(c.template) = args[i].class

check(c, args) ==
    LET all_formulas ==
            \/ PyInArgs(<<"<", "f", "o", "r", "m", "u", "l", "a", ">">>, args)
            \/ PyInArgs(<<"<", "f", ">">>, args)
        all_constraints ==
            \/ PyInArgs(<<"<", "c", "o", "n", "s", "t", "r", "a", "i", "n", "t", ">">>, args)
            \/ PyInArgs(<<"<", "c", ">">>, args)
    IN  IF all_formulas /\ is_formula(c) THEN TRUE
        ELSE IF all_constraints /\ ~is_formula(c) THEN TRUE
        ELSE \E i \in DOMAIN args :
                IF args[i].kind = "str"
                THEN fnmatch(Chars[c.template], args[i].text)
                ELSE ClassOf(c.template) = args[i].class

filter_constraints(constraints, args) ==
    SelectSeq(constraints, LAMBDA c : check(c, args))

\* a set as a list, in one fixed order
RECURSIVE SetToSeq(_)
SetToSeq(S) ==
    IF S = {} THEN <<>>
    ELSE LET e == CHOOSE e \in S : TRUE IN <<e>> \o SetToSeq(S \ {e})

\* learn_constraints(...).constraints: the stored instances, batch by batch
RECURSIVE constraints_of(_)
constraints_of(st) ==
    IF st = <<>> THEN <<>>
    ELSE LET sols == SetToSeq(Head(st).solutions)
         IN  [i \in DOMAIN sols |->
                 [template |-> Head(st).template, assignment |-> sols[i]]]
             \o constraints_of(Tail(st))

NotCalled == [called |-> FALSE, given |-> FALSE, filters |-> <<>>, constraints |-> <<>>]

\* no library function called on its own
NoCall == [op |-> "", value |-> ""]

\* the filters a caller passes: none at all (None), or a list of patterns
FilterChoices ==
    {[given |-> FALSE, filters |-> <<>>]} \cup
    {[given |-> TRUE, filters |-> f] :
        f \in {<<>>, <<Glob(<<"*">>)>>, <<Glob(<<"s", "e", "r", "i", "e", "s">>)>>,
               <<Glob(<<"p", "e", "r", "*">>), Glob(<<"e", "q", "u", "a", "?">>)>>,
               <<Glob(<<"<", "c", ">">>)>>, <<Glob(<<"<", "f", ">">>)>>,
               <<Class("Aggregate"), Glob(<<"r", "a", "n", "k">>)>>}}

\* learn_from_cells, once the loop is through: the learned list, or with
\* filters the value of filter_constraints(filters)
learn_from_cells ==
    /\ todo = <<>>
    /\ ~result.called
    /\ \E choice \in FilterChoices :
          result' = [called |-> TRUE, given |-> choice.given,
                     filters |-> choice.filters,
                     constraints |->
                        IF ~choice.given THEN constraints_of(store)
                        ELSE filter_constraints(choice.filters, <<>>)]
    /\ UNCHANGED <<cells, blocks, store, todo, argv, ret, cache>>

\* the start of a run on a sheet with a set of enabled templates
Start(sheet, enabled) ==
    /\ cells = sheet.cells
    /\ blocks = sheet.blocks
    /\ store = <<>>
    /\ todo = TopologicalOrder(enabled, <<>>)
    /\ result = NotCalled
    /\ argv = <<>>
    /\ ret = NoCall
    /\ cache = <<>>

----------------------------------------------------------------------------
(* Input sheets *)

VectorLength == 3
MaxValue == 4

Vec == [1..VectorLength -> 1..MaxValue]
\* the vectors that are 1 everywhere but at one place
OneOff ==
    {[i \in 1..VectorLength |-> IF i = p THEN a ELSE 1] :
        p \in 1..VectorLength, a \in 1..MaxValue}

IntColumn(x) == [i \in DOMAIN x |-> Whole(x[i])]
HalfColumn(x) == [i \in DOMAIN x |-> Num(x[i] * 100 + 50)]
TextColumn(x) == [i \in DOMAIN x |-> Str(x[i])]
Counting == [i \in 1..VectorLength |-> Whole(i)]
\* x with a hole in its second cell
GappedColumn(x) == [i \in DOMAIN x |-> IF i = 2 THEN NaN ELSE Whole(x[i])]

\* a table from its columns / from its rows
TableOfColumns(cols) ==
    [r \in 1..Len(cols[1]) |-> [c \in 1..Len(cols) |-> cols[c][r]]]

NoTable == <<>>
Sheet(t1, t2, t3) == [n \in Range1(TableNames) |->
                         IF n = "T1" THEN t1 ELSE IF n = "T2" THEN t2 ELSE t3]

\* the column strip of table t from column c (from 0), w columns wide
ColumnStrip(data, t, c, w) ==
    MakeBlock(data, t, Range(c, 0, w, Len(data)), "vertical")
\* the row strip of table t from row r (from 0), h rows high
RowStrip(data, t, r, h) ==
    MakeBlock(data, t, Range(0, r, Len(data[1]), h), "horizontal")

\* the ways a table of like-typed columns is cut into column strips:
\* one strip per column, or (two columns of one type) a single strip
ColumnLayouts(data, t) ==
    LET each == {ColumnStrip(data, t, c - 1, 1) : c \in 1..Len(data[1])}
        whole == ColumnStrip(data, t, 0, Len(data[1]))
    IN  {each} \cup
        (IF \A i \in DOMAIN whole.vector_types :
                whole.vector_types[i] = whole.vector_types[1]
         THEN {{whole}} ELSE {})

\* the sheets of one table of columns, over the ways of cutting it
OneTableSheets(t1) ==
    {[cells |-> Sheet(t1, NoTable, NoTable), blocks |-> layout] :
         layout \in ColumnLayouts(t1, "T1")}

\* sheets of the chain AllDifferent -> Permutation -> Series: one table of
\* two columns, the first the whole numbers x, the second of a few kinds
ChainSheets(x) ==
    UNION {OneTableSheets(TableOfColumns(<<IntColumn(x), second>>)) :
               second \in {Counting, TextColumn(x), HalfColumn(x), GappedColumn(x)}}

ChainTemplates == {"all-different", "permutation", "series"}

InitChain == \E x \in Vec : \E sheet \in ChainSheets(x) : Start(sheet, ChainTemplates)
NextChain == LearnAllDifferent \/ LearnPermutation \/ LearnSeries \/ learn_from_cells
SpecChain == InitChain /\ [][NextChain]_vars

----------------------------------------------------------------------------
(* The chain AllDifferent -> Permutation -> Series *)

\* the store as it was when the batch of template name was computed
StoreBefore(name) ==
    SubSeq(store, 1, (CHOOSE i \in DOMAIN store : store[i].template = name) - 1)

Learned(name) == \E i \in DOMAIN store : store[i].template = name

\* the vectors the validator of template c was offered for variable X
OfferedX(c) ==
    UNION {Vectors(a["X"]) : a \in candidates(c, blocks, StoreBefore(c.name))}

IsOneToN(x) ==
    /\ \A n \in 1..Len(x) : \E i \in DOMAIN x : x[i] = Whole(n)
    /\ \A i \in DOMAIN x : \E n \in 1..Len(x) : x[i] = Whole(n)

IsCounting(x) == \A i \in DOMAIN x : x[i] = Whole(i)

\* the vectors of blank-free whole-number input blocks that count 1, 2, .., n
CountingVectors ==
    {v \in UNION {Vectors(b) : b \in {g \in blocks : ~is_partial(g) /\ dtype(g) = "int"}} :
        IsCounting(to_data(v))}

----------------------------------------------------------------------------
(* Rank *)

\* 1 + the number of elements of x strictly greater than x[i]
CompetitionRank(x) ==
    [i \in DOMAIN x |-> 1 + Cardinality({j \in DOMAIN x : x[j] > x[i]})]

\* sheets for Rank: a column X (the numbers x, or x and a half) and beside
\* it a column of whole numbers: the ranking of x, its ranking counted from
\* the smallest, x itself, or 1..n
RankSheets(x) ==
    UNION {OneTableSheets(TableOfColumns(<<q[1], IntColumn(q[2])>>)) :
               q \in {IntColumn(x), HalfColumn(x)}
                     \X {CompetitionRank(x),
                         CompetitionRank([i \in DOMAIN x |-> 0 - x[i]]),
                         x, [i \in DOMAIN x |-> i]}}

RankTemplates == {"equal", "rank"}

InitRank == \E x \in Vec : \E sheet \in RankSheets(x) : Start(sheet, RankTemplates)
NextRank == LearnEqual \/ LearnRank
SpecRank == InitRank /\ [][NextRank]_vars

\* the pairs of vectors the Rank validator was offered
OfferedRank ==
    _generate_test_vectors(candidates(Rank, blocks, StoreBefore("rank")), <<"Y", "X">>)

Numbers(v) == [i \in DOMAIN to_data(v) |-> to_data(v)[i].v]

IsRankOf(y, x) ==
    \A i \in DOMAIN x : y[i] = 100 * (1 + Cardinality({j \in DOMAIN x : x[j] > x[i]}))

EqualStored(a, b) ==
    \/ has_solution(store, "equal", [O1 |-> a, O2 |-> b])
    \/ has_solution(store, "equal", [O1 |-> b, O2 |-> a])

\* C8: of the pairs of same-length blank-free vectors Y (whole numbers) and
\* X (numbers) it is offered, Rank accepts exactly those where every Y[i] is
\* 1 + the number of elements of X strictly greater than X[i] and no Equal
\* instance over Y and X is in the store.
RankExact ==
    Learned("rank") =>
        \A f \in OfferedRank :
            has_solution(store, "rank", f)
                <=> /\ IsRankOf(Numbers(f["Y"]), Numbers(f["X"]))
                    /\ ~EqualStored(f["Y"], f["X"])

\* a run where a ranking with a tie is accepted and another pair is not
RankExactSeen ==
    /\ Learned("rank")
    /\ \E f \in get_solutions(store, "rank") :
          \E i \in 1..VectorLength : \E j \in 1..VectorLength :
              i # j /\ Numbers(f["Y"])[i] = Numbers(f["Y"])[j]
    /\ \E f \in OfferedRank : ~has_solution(store, "rank", f)

----------------------------------------------------------------------------
(* ForeignKey, Lookup and the derived sources *)

Backwards == [i \in 1..VectorLength |-> VectorLength + 1 - i]
Rotated == [i \in 1..VectorLength |-> (i % VectorLength) + 1]

\* the value of vals at the place of key in keys
ValueAt(keys, vals, key) ==
    IF \E k \in DOMAIN keys : keys[k] = key
    THEN vals[CHOOSE k \in DOMAIN keys : keys[k] = key]
    ELSE vals[1]

\* the sheets of two tables of columns, over the ways of cutting them
TwoTableSheets(t1, t2) ==
    {[cells |-> Sheet(t1, t2, NoTable), blocks |-> l1 \cup l2] :
         l1 \in ColumnLayouts(t1, "T1"), l2 \in ColumnLayouts(t2, "T2")}

\* a column of values for the keys fk: the looked-up values, those with the
\* first cell replaced, or the value column itself
ValueColumns(ok, ov, fk) ==
    LET right == [i \in DOMAIN fk |-> ValueAt(ok, ov, fk[i])]
    IN  {right, [right EXCEPT ![1] = ov[1 + (fk[1] % VectorLength)]], ov}

\* sheets for Lookup.  T1: a key column (1..n, rotated) and a value column
\* (texts, or the whole numbers 1..n).  T2: the column of keys fk and a
\* column of values for them
LookupSheets(fk) ==
    UNION {TwoTableSheets(TableOfColumns(<<IntColumn(Rotated), q[1]>>),
                          TableOfColumns(<<IntColumn(fk), q[2]>>)) :
               q \in UNION {{ov} \X ValueColumns(Rotated, ov, fk) :
                               ov \in {TextColumn(Backwards), Counting}}}

LookupTemplates ==
    {"all-different", "equal", "foreign-key", "lookup", "permutation", "series"}

InitLookup ==
    \E fk \in OneOff \cup {Rotated} :
        \E sheet \in LookupSheets(fk) : Start(sheet, LookupTemplates)
NextLookup ==
    \/ LearnAllDifferent
    \/ LearnEqual
    \/ LearnForeignKey
    \/ LearnLookup
    \/ LearnPermutation
    \/ LearnSeries
SpecLookup == InitLookup /\ [][NextLookup]_vars

\* the tuples of vectors the Lookup validator went through, no two overlapping
OfferedLookup ==
    UNION {{f \in VectorProduct(a, <<"OK", "OV", "FK", "FV">>) :
               NoOverlap(f, <<"OK", "OV", "FK", "FV">>)} :
           a \in candidates(Lookup, blocks, StoreBefore("lookup"))}

AllDistinct(x) == \A i \in DOMAIN x : \A j \in DOMAIN x : x[i] = x[j] => i = j

\* FV[i] is the OV at the place of FK[i] in OK
LooksUp(ok, ov, fk, fv) ==
    \A i \in DOMAIN fk : \E k \in DOMAIN ok : ok[k] = fk[i] /\ fv[i] = ov[k]

\* C7: of the tuples of pairwise non-overlapping vectors OK, OV, FK, FV with
\* OK all different and every FK value in OK, Lookup accepts exactly those
\* where every FV[i] is the OV at the index of FK[i] in OK, unless Equal(OK,
\* FK) and Equal(OV, FV) are both in the store.
LookupExact ==
    Learned("lookup") =>
        \A f \in OfferedLookup :
            (/\ AllDistinct(to_data(f["OK"]))
             /\ Range1(to_data(f["FK"])) \subseteq Range1(to_data(f["OK"])))
            => (has_solution(store, "lookup", f)
                  <=> /\ LooksUp(to_data(f["OK"]), to_data(f["OV"]),
                                 to_data(f["FK"]), to_data(f["FV"]))
                      /\ ~(EqualStored(f["OK"], f["FK"]) /\ EqualStored(f["OV"], f["FV"])))

\* a run where a lookup with a repeated key is accepted and another tuple,
\* with a wrong value, is turned down
LookupExactSeen ==
    /\ Learned("lookup")
    /\ \E f \in get_solutions(store, "lookup") : ~AllDistinct(to_data(f["FK"]))
    /\ \E f \in OfferedLookup :
          /\ ~has_solution(store, "lookup", f)
          /\ ~LooksUp(to_data(f["OK"]), to_data(f["OV"]),
                      to_data(f["FK"]), to_data(f["FV"]))

\* the batches of the store before batch i
Earlier(i) == SubSeq(store, 1, i - 1)

DerivedTemplates ==
    {n \in LookupTemplates : Template(n).source.constraint # ""}

\* C4: every candidate of a derived source binds each renamed variable to
\* the block a solution of the prerequisite template, stored before, binds to
\* the original variable; so the (OK, FK) of every Lookup instance is the
\* (PK, FK) of an earlier ForeignKey instance, and the X of every Permutation
\* (Series) instance the X of an earlier AllDifferent (Permutation) instance.
DerivedFromStore ==
    \A i \in DOMAIN store :
        LET c == Template(store[i].template)
            prerequisites == get_solutions(Earlier(i), c.source.constraint)
        IN  c.name \in DerivedTemplates =>
              /\ \A a \in candidates(c, blocks, Earlier(i)) :
                    \E sol \in prerequisites :
                        \A k \in DOMAIN sol : a[c.source.dictionary[k]] = sol[k]
              /\ \A f \in store[i].solutions :
                    \E sol \in prerequisites :
                        \A k \in DOMAIN sol : f[c.source.dictionary[k]] = sol[k]

\* a run with a Lookup, a Permutation and a Series instance in the store
DerivedFromStoreSeen ==
    /\ get_solutions(store, "lookup") # {}
    /\ get_solutions(store, "permutation") # {}
    /\ get_solutions(store, "series") # {}

----------------------------------------------------------------------------
(* learn_from_cells with a filter *)

\* C10: when a filter is supplied, the result of learn_from_cells is the
\* learned list passed through filter_constraints with the filter's patterns,
\* in order; no learned constraint that matches the filter is missing.
FilteredResult ==
    (result.called /\ result.given) =>
        result.constraints = filter_constraints(constraints_of(store), result.filters)

----------------------------------------------------------------------------
(* Types of the bound blocks *)

\* sheets with a strip of unlike columns: T1 holds a text column, two columns
\* of numbers and a half, and a column y of whole numbers; the first three
\* columns are one block, the last is another
TypeSheets(x) ==
    {[cells |-> Sheet(data, NoTable, NoTable),
      blocks |-> {ColumnStrip(data, "T1", 0, 3), ColumnStrip(data, "T1", 3, 1)}] :
        data \in {TableOfColumns(<<TextColumn(x), HalfColumn(x),
                                   HalfColumn(Backwards), IntColumn(y)>>) :
                     y \in {CompetitionRank(x), [i \in DOMAIN x |-> i]}}}

InitTypes == \E x \in Vec : \E sheet \in TypeSheets(x) : Start(sheet, RankTemplates)
NextTypes ==
    \/ LearnEqual
    \/ LearnRank
SpecTypes == InitTypes /\ [][NextTypes]_vars

\* every variable of assignment a of template c is bound to a block whose
\* type is in the variable's type set
Admissible(c, a) ==
    \A i \in DOMAIN c.variables :
        dtype(a[c.variables[i].name]) \in c.variables[i].types

----------------------------------------------------------------------------
(* Equal *)

\* the block of w columns and VectorLength rows of table t from column c,
\* row r (both from 0)
ColumnPiece(data, t, c, r, w) ==
    MakeBlock(data, t, Range(c, r, w, VectorLength), "vertical")

\* sheets for Equal: T1 holds two columns of twice VectorLength whole
\* numbers, each cut into an upper and a lower block; x fills the upper left
\* and the lower right one
EqualSheets(x) ==
    {[cells |-> Sheet(data, NoTable, NoTable),
      blocks |-> {ColumnPiece(data, "T1", c, r, 1) :
                     c \in {0, 1}, r \in {0, VectorLength}}] :
        data \in {TableOfColumns(<<IntColumn(x \o q[1]), IntColumn(q[2] \o x)>>) :
                     q \in {x, Backwards} \X {x, Rotated}}}

EqualTemplates == {"equal"}

InitEqual == \E x \in Vec : \E sheet \in EqualSheets(x) : Start(sheet, EqualTemplates)
NextEqual ==
    \/ LearnEqual
    \/ learn_from_cells
SpecEqual == InitEqual /\ [][NextEqual]_vars

\* the vectors of the input blocks
InputVectors == UNION {Vectors(b) : b \in blocks}

\* an Equal instance over a and b, in the one or the other order, is stored
Related(a, b) == EqualStored(a, b)

\* C3: if Equal(a, b) and Equal(b, c) are reported for vectors a, b, c of the
\* candidate blocks then an Equal instance relating a and c is reported; and
\* of the two orderings of a pair of distinct equal vectors exactly one is
\* reported, never both.
EqualTransitive ==
    Learned("equal") =>
        /\ \A a \in InputVectors : \A b \in InputVectors : \A c \in InputVectors :
              (a # c /\ Related(a, b) /\ Related(b, c)) => Related(a, c)
        /\ \A a \in InputVectors : \A b \in InputVectors :
              ~(/\ has_solution(store, "equal", [O1 |-> a, O2 |-> b])
                /\ has_solution(store, "equal", [O1 |-> b, O2 |-> a]))

----------------------------------------------------------------------------
(* ConditionalAggregate *)

KeyLength == VectorLength + 2

\* the keys of T1: 1..n, as whole numbers or as texts
KeyColumn(kind, x) == IF kind = "text" THEN TextColumn(x) ELSE IntColumn(x)

\* the keys of T2: one key, but another at the odd places from the third on
\* (as in b, b, c, b, c), or 1..KeyLength, or 1, 1, 2, .., n, 1
CondKeys ==
    {[i \in 1..KeyLength |-> IF i >= 3 /\ i % 2 = 1 THEN k2 ELSE k1] :
        k1 \in 1..MaxValue, k2 \in 1..MaxValue}
    \cup {[i \in 1..KeyLength |-> i]}
    \cup {[i \in 1..KeyLength |-> IF i \in 3..(KeyLength - 1) THEN i - 1 ELSE 1]}

\* the values of T2: 10.2, 3.7, 5.12, 20, 1 (and over again), or 1..KeyLength,
\* or 0, 0, 1, .., n - 1, 0
ExampleValues == <<1020, 370, 512, 2000, 100>>
CondValues ==
    {[i \in 1..KeyLength |-> Num(ExampleValues[((i - 1) % 5) + 1])],
     [i \in 1..KeyLength |-> Whole(i)],
     [i \in 1..KeyLength |-> Whole(IF i \in 3..(KeyLength - 1) THEN i - 2 ELSE 0)]}

\* the places of fk that hold key
Places(fk, key) == {j \in DOMAIN fk : fk[j] = key}

\* the sum / the largest of the numbers v[j] over the places js
RECURSIVE SumOver(_, _)
SumOver(v, js) ==
    IF js = {} THEN 0
    ELSE LET j == CHOOSE j \in js : TRUE IN v[j].v + SumOver(v, js \ {j})
MaxOver(v, js) == CHOOSE m \in {v[j].v : j \in js} : \A j \in js : v[j].v <= m

\* columns R for keys ok, fk and values v: the sums, the sums to one and to
\* no decimal, the sums with the first one off, and the largest values with
\* a blank or a 0 where no key matches
ResultColumns(ok, fk, v) ==
    LET sums == [i \in DOMAIN ok |-> SumOver(v, Places(fk, ok[i]))]
        largest(i, none) ==
            IF Places(fk, ok[i]) = {} THEN none
            ELSE Num(MaxOver(v, Places(fk, ok[i])))
    IN  {[i \in DOMAIN ok |-> Num(sums[i])],
         [i \in DOMAIN ok |-> Num(RoundTo(sums[i], 10))],
         [i \in DOMAIN ok |-> Num(RoundTo(sums[i], 100))],
         [i \in DOMAIN ok |-> Num(sums[i] + (IF i = 1 THEN 100 ELSE 0))],
         [i \in DOMAIN ok |-> largest(i, NaN)],
         [i \in DOMAIN ok |-> largest(i, Whole(0))]}

\* sheets for the conditional aggregates.  T1: the keys 1..n and a column R.
\* T2: a column of keys fk and a column of values
CondSheets(fk, kind) ==
    LET ok == [i \in 1..VectorLength |-> i]
    IN  UNION {TwoTableSheets(TableOfColumns(<<KeyColumn(kind, ok), q[2]>>),
                              TableOfColumns(<<KeyColumn(kind, fk), q[1]>>)) :
                   q \in UNION {{v} \X ResultColumns(ok, fk, v) : v \in CondValues}}

CondTemplates ==
    {"all-different", "equal", "foreign-key", "lookup", "max-if", "sum-if"}

InitCond ==
    \E fk \in CondKeys : \E kind \in {"text", "int"} :
        \E sheet \in CondSheets(fk, kind) : Start(sheet, CondTemplates)
NextCond ==
    \/ LearnAllDifferent
    \/ LearnEqual
    \/ LearnForeignKey
    \/ LearnLookup
    \/ LearnMaxIf
    \/ LearnSumIf
SpecCond == InitCond /\ [][NextCond]_vars

\* the tuples of vectors the validator of the conditional aggregate name
\* went through, no two overlapping
OfferedCond(name) ==
    UNION {{f \in VectorProduct(a, <<"OK", "R", "FK", "V">>) :
               NoOverlap(f, <<"OK", "R", "FK", "V">>)} :
           a \in candidates(Template(name), blocks, StoreBefore(name))}

BlankFree(x) == \A i \in DOMAIN x : x[i].k \in {"num", "str"}

\* some key of ok occurs in fk
KeyOccurs(ok, fk) == \E i \in DOMAIN ok : Places(fk, ok[i]) # {}

\* the size, in hundredths, of the last decimal r is written with
UnitOf(r) == IF r % 100 = 0 THEN 100 ELSE IF r % 10 = 0 THEN 10 ELSE 1

Distance(a, b) == IF a < b THEN b - a ELSE a - b

\* r is res rounded to the decimals of r, a half going to the even neighbour
RoundsTo(res, r) ==
    \/ 2 * Distance(res, r) < UnitOf(r)
    \/ 2 * Distance(res, r) = UnitOf(r) /\ (r \div UnitOf(r)) % 2 = 0

\* every R[i] is the sum of the V[j] with FK[j] = OK[i] (0 without any)
IsSumIf(f) ==
    \A i \in DOMAIN to_data(f["OK"]) :
        to_data(f["R"])[i].v =
            SumOver(to_data(f["V"]), Places(to_data(f["FK"]), to_data(f["OK"])[i]))

\* every R[i] is that sum rounded to the decimals of R[i]
IsRoundedSumIf(f) ==
    \A i \in DOMAIN to_data(f["OK"]) :
        RoundsTo(SumOver(to_data(f["V"]),
                         Places(to_data(f["FK"]), to_data(f["OK"])[i])),
                 to_data(f["R"])[i].v)

\* an earlier finding stands for the tuple: OK is a foreign key into FK, R
\* one into V, or FK is looked up from R by V
Subsumed(f) ==
    \/ has(store, "foreign-key", <<"FK", "PK">>, <<f["OK"], f["FK"]>>)
    \/ has(store, "foreign-key", <<"FK", "PK">>, <<f["R"], f["V"]>>)
    \/ has(store, "lookup", <<"FV", "FK", "OK", "OV">>,
           <<f["FK"], f["V"], f["R"], f["OK"]>>)

\* the tuples of blank-free vectors SumIf was offered
OfferedSumIf ==
    {f \in OfferedCond("sum-if") :
        \A k \in {"OK", "R", "FK", "V"} : BlankFree(to_data(f[k]))}

\* C5 as amended: of the tuples of blank-free vectors OK (all different), R,
\* FK, V it is offered, SumIf accepts exactly those where every R[i] is the
\* sum of the V[j] with FK[j] = OK[i] (0 without any) rounded to the
\* decimals of R[i], some key of OK occurs in FK, and no stored ForeignKey
\* or Lookup instance stands for the tuple.
SumIfRounded ==
    Learned("sum-if") =>
        \A f \in OfferedSumIf :
            has_solution(store, "sum-if", f)
                <=> /\ IsRoundedSumIf(f)
                    /\ KeyOccurs(to_data(f["OK"]), to_data(f["FK"]))
                    /\ ~Subsumed(f)

\* C5 as stated: SumIf accepts exactly the tuples where every R[i] is the
\* sum of the V[j] with FK[j] = OK[i] (0 without any) and some key of OK
\* occurs in FK.
SumIfExact ==
    Learned("sum-if") =>
        \A f \in OfferedSumIf :
            has_solution(store, "sum-if", f)
                <=> /\ IsSumIf(f)
                    /\ KeyOccurs(to_data(f["OK"]), to_data(f["FK"]))

\* a run where SumIf accepts a tuple with a key that occurs nowhere in FK
\* and a tuple whose R holds a rounded sum, and turns another tuple down
SumIfRoundedSeen ==
    /\ Learned("sum-if")
    /\ \E f \in get_solutions(store, "sum-if") :
          \E i \in DOMAIN to_data(f["OK"]) :
              Places(to_data(f["FK"]), to_data(f["OK"])[i]) = {}
    /\ \E f \in get_solutions(store, "sum-if") : ~IsSumIf(f)
    /\ \E f \in OfferedSumIf :
          ~has_solution(store, "sum-if", f) /\ ~IsRoundedSumIf(f)

\* R[i] is blank for a key that occurs nowhere in FK, and else the largest
\* of the V[j] with FK[j] = OK[i]
IsMaxIfWithBlanks(f) ==
    \A i \in DOMAIN to_data(f["OK"]) :
        LET js == Places(to_data(f["FK"]), to_data(f["OK"])[i])
            r == to_data(f["R"])[i]
        IN  IF js = {} THEN ~blank_filter(r)
            ELSE r = Num(MaxOver(to_data(f["V"]), js))

\* C6: a tuple MaxIf is offered, of blank-free OK, FK and V with a key of OK
\* in FK, whose R[i] is blank where OK[i] occurs nowhere in FK and else the
\* largest of the V[j] with FK[j] = OK[i], is accepted as a MaxIf instance.
MaxIfBlankDefault ==
    Learned("max-if") =>
        \A f \in OfferedCond("max-if") :
            (/\ \A k \in {"OK", "FK", "V"} : BlankFree(to_data(f[k]))
             /\ KeyOccurs(to_data(f["OK"]), to_data(f["FK"]))
             /\ IsMaxIfWithBlanks(f)
             /\ ~Subsumed(f))
            => has_solution(store, "max-if", f)

----------------------------------------------------------------------------
(* Overlap of the bound blocks *)

\* x turned by k places
Turned(x, k) == [i \in DOMAIN x |-> x[((i + k - 1) % Len(x)) + 1]]

\* the largest of the numbers of a non-empty set
Largest(S) == CHOOSE m \in S : \A n \in S : n <= m

\* sheets for the aggregates: a square table T1 whose columns are x turned
\* by 0, 1, .. places and, last, the largest of each row; its columns are one
\* block and its rows another
AggregateSheets(x) ==
    LET n == Len(x)
        col(j) == IF j < n THEN Turned(x, j - 1)
                  ELSE [i \in 1..n |-> Largest({Turned(x, k - 1)[i] : k \in 1..(n - 1)})]
        data == TableOfColumns([j \in 1..n |-> IntColumn(col(j))])
    IN  {[cells |-> Sheet(data, NoTable, NoTable),
          blocks |-> {ColumnStrip(data, "T1", 0, n), RowStrip(data, "T1", 0, n)}]}

AggregateTemplates == {"equal", "max (row)", "project"}

InitAggregate ==
    \E x \in Vec : \E sheet \in AggregateSheets(x) : Start(sheet, AggregateTemplates)
NextAggregate ==
    \/ LearnEqual
    \/ LearnProjection
    \/ LearnMaxRow
SpecAggregate == InitAggregate /\ [][NextAggregate]_vars

\* the two blocks have a sheet cell in common
ShareCell(a, b) ==
    a.table = b.table /\ CellsOf(a.relative_range) \cap CellsOf(b.relative_range) # {}

\* C1: in every instance a validator returns, the blocks bound to two
\* distinct variables share no sheet cell.
OverlapFree ==
    \A i \in DOMAIN store : \A f \in store[i].solutions :
        \A k1 \in DOMAIN f : \A k2 \in DOMAIN f :
            k1 # k2 => ~ShareCell(f[k1], f[k2])

----------------------------------------------------------------------------
(* filter_constraints on a list of constraints *)

MaxConstraints == 2

\* the templates of the constraints of the lists
FilterNames == {"equal", "max (col)", "permutation", "rank", "series", "sum-if"}

\* the lists of at most n constraints, as a store of one-instance batches
RECURSIVE ConstraintLists(_)
ConstraintLists(n) ==
    IF n = 0 THEN {<<>>}
    ELSE LET shorter == ConstraintLists(n - 1)
         IN  shorter \cup
             {Append(st, [template |-> name, solutions |-> {<<>>}]) :
                  st \in shorter, name \in FilterNames}

\* the lists of patterns a caller filters with
PatternLists == {choice.filters : choice \in {c \in FilterChoices : c.given}}

InitFilter ==
    /\ cells = Sheet(NoTable, NoTable, NoTable)
    /\ blocks = {}
    /\ store \in ConstraintLists(MaxConstraints)
    /\ todo = <<>>
    /\ result = NotCalled
    /\ argv = <<>>
    /\ ret = NoCall
    /\ cache = <<>>

\* a call filter_constraints(constraints, *patterns) on the list
FilterList ==
    /\ ~result.called
    /\ \E patterns \in PatternLists :
          result' = [called |-> TRUE, given |-> TRUE, filters |-> patterns,
                     constraints |->
                        filter_constraints(constraints_of(store), patterns)]
    /\ UNCHANGED <<cells, blocks, store, todo, argv, ret, cache>>

NextFilter == FilterList
SpecFilter == InitFilter /\ [][NextFilter]_vars

\* the text pattern (with at most one *) matches the name
GlobMatches(name, pattern) ==
    LET stars == {i \in DOMAIN pattern : pattern[i] = "*"}
        same(i, j) == pattern[i] = "?" \/ pattern[i] = name[j]
    IN  IF stars = {}
        THEN Len(name) = Len(pattern) /\ \A i \in DOMAIN pattern : same(i, i)
        ELSE LET s == CHOOSE i \in stars : TRUE
                 shift == Len(name) - Len(pattern)
             IN  /\ shift >= -1
                 /\ \A i \in 1..(s - 1) : same(i, i)
                 /\ \A i \in (s + 1)..Len(pattern) : same(i, i + shift)

IsSentinel(p, long, short) == p.kind = "str" /\ p.text \in {long, short}

\* constraint c is asked for by the patterns
AskedFor(c, patterns) ==
    \E i \in DOMAIN patterns :
        LET p == patterns[i] IN
        \/ /\ IsSentinel(p, <<"<", "f", "o", "r", "m", "u", "l", "a", ">">>, <<"<", "f", ">">>)
           /\ is_formula(c)
        \/ /\ IsSentinel(p, <<"<", "c", "o", "n", "s", "t", "r", "a", "i", "n", "t", ">">>,
                         <<"<", "c", ">">>)
           /\ ~is_formula(c)
        \/ p.kind = "str" /\ GlobMatches(Chars[c.template], p.text)
        \/ p.kind = "class" /\ ClassOf(c.template) = p.class

\* the places of list kept, in order, make up list out
RECURSIVE KeptInOrder(_, _, _)
KeptInOrder(list, out, patterns) ==
    IF list = <<>> THEN out = <<>>
    ELSE IF AskedFor(Head(list), patterns)
         THEN out # <<>> /\ Head(out) = Head(list)
              /\ KeptInOrder(Tail(list), Tail(out), patterns)
         ELSE KeptInOrder(Tail(list), out, patterns)

----------------------------------------------------------------------------
(* Assignment generation for the templates with a free source *)

\* sheets with blocks of several types, some with blanks.  T1: the whole
\* numbers x, x with a hole, and a third column; T2: two columns of whole
\* numbers, the second with a hole
AssignSheets(x) ==
    UNION {TwoTableSheets(TableOfColumns(<<IntColumn(x), GappedColumn(x), third>>),
                          TableOfColumns(<<IntColumn(Backwards), GappedColumn(Rotated)>>)) :
               third \in {Counting, TextColumn(x), HalfColumn(x)}}

AssignTemplates ==
    {"all-different", "equal", "max (col)", "project", "rank", "sum (row)"}

InitAssign ==
    \E x \in OneOff : \E sheet \in AssignSheets(x) : Start(sheet, AssignTemplates)
NextAssign ==
    \/ LearnAllDifferent
    \/ LearnEqual
    \/ LearnMaxCol
    \/ LearnProjection
    \/ LearnRank
    \/ LearnSumRow
SpecAssign == InitAssign /\ [][NextAssign]_vars

\* the total mappings of the variables of c to input blocks with every
\* block's type in its variable's type set and every filter of c true
Satisfying(c) ==
    {a \in [VarNames(c) -> blocks] :
        /\ Admissible(c, a)
        /\ \A i \in DOMAIN c.filters : FilterTest(c.filters[i], a)}

\* C12: for a template with a free source, the candidates are exactly the
\* total mappings of its variables to input blocks with every block's type
\* in its variable's type set and every filter of the template true.
CandidatesExact ==
    \A i \in DOMAIN store :
        LET c == Template(store[i].template)
        IN  c.source.constraint = "" =>
                candidates(c, blocks, Earlier(i)) = Satisfying(c)

\* a run where a template of two variables got some mappings and not others
CandidatesExactSeen ==
    \E i \in DOMAIN store :
        LET c == Template(store[i].template)
            found == candidates(c, blocks, Earlier(i))
        IN  /\ c.source.constraint = ""
            /\ Len(c.variables) = 2
            /\ found # {}
            /\ found # [VarNames(c) -> blocks]

----------------------------------------------------------------------------
(* Calls of the library's functions on their own *)

\* nothing learned, inputs waiting for a call
Pending(inputs) ==
    /\ cells = Sheet(NoTable, NoTable, NoTable)
    /\ blocks = {}
    /\ store = <<>>
    /\ todo = <<>>
    /\ result = NotCalled
    /\ argv = inputs
    /\ ret = NoCall
    /\ cache = <<>>

\* the call of op on argv came back with value
Return(op, value) ==
    /\ ret' = [op |-> op, value |-> value]
    /\ UNCHANGED <<cells, blocks, store, todo, result, argv, cache>>

----------------------------------------------------------------------------
(* The cell-type lattice on its own *)

MaxTypes == 3

CellTypes == {"int", "float", "currency", "percentage", "numeric", "string"}

RECURSIVE TypeLists(_)
TypeLists(n) ==
    IF n = 0 THEN {<<>>}
    ELSE LET shorter == TypeLists(n - 1)
         IN  shorter \cup {Append(l, t) : l \in shorter, t \in CellTypes \cup {NoType}}

InitTyping == \E inputs \in TypeLists(MaxTypes) \ {<<>>} : Pending(inputs)

CallLowestCommonAncestor ==
    /\ Len(argv) = 2
    /\ Return("lowest_common_ancestor", lowest_common_ancestor(argv[1], argv[2]))
CallMax ==
    /\ Len(argv) >= 1
    /\ Return("max", Typing_max(argv))
CallBlankDetector ==
    /\ Len(argv) = 1
    /\ Return("blank_detector", blank_detector(argv[1]))
CallGetBlank ==
    /\ Len(argv) = 1
    /\ Return("get_blank", get_blank(argv[1]))

NextTyping ==
    \/ CallLowestCommonAncestor
    \/ CallMax
    \/ CallBlankDetector
    \/ CallGetBlank
SpecTyping == InitTyping /\ [][NextTyping]_vars

\* the types under numeric, numeric included
UnderNumeric == {"int", "float", "currency", "percentage", "numeric"}

\* t and everything above it in the hierarchy
RECURSIVE Ancestors(_)
Ancestors(t) ==
    {t} \cup (IF t \in DOMAIN hierarchy THEN Ancestors(hierarchy[t]) ELSE {})

\* C13: for every pair of types under numeric lowest_common_ancestor
\* returns, without raising, the deepest type that is on both root paths,
\* also when one of the two is a proper ancestor of the other.
LcaDeepest ==
    (ret.op = "lowest_common_ancestor" /\ argv[1] \in UnderNumeric /\ argv[2] \in UnderNumeric) =>
        LET common == Ancestors(argv[1]) \cap Ancestors(argv[2])
        IN  /\ ret.value # IndexError
            /\ ret.value \in common
            /\ common \subseteq Ancestors(ret.value)

\* the lists that hold the elements of l in another order
Permuted(l) ==
    {[i \in DOMAIN l |-> l[p[i]]] :
        p \in {q \in [DOMAIN l -> DOMAIN l] : \A i \in DOMAIN l : \E j \in DOMAIN l : q[j] = i}}

\* C28: Typing.max of a non-empty list of cell types is the same for every
\* order of the list, and is no numeric type when the list holds string next
\* to a numeric type.
MaxOrderFree ==
    (ret.op = "max" /\ \A i \in DOMAIN argv : argv[i] \in CellTypes) =>
        /\ \A l \in Permuted(argv) : Typing_max(l) = ret.value
        /\ (\E i \in DOMAIN argv : \E j \in DOMAIN argv :
                argv[i] = "string" /\ argv[j] \in UnderNumeric)
              => ret.value \notin UnderNumeric

\* the second half of C28 alone, for the lists that raise nothing
MaxKeepsMismatch ==
    (/\ ret.op = "max"
     /\ \A i \in DOMAIN argv : argv[i] \in {"int", "string"}
     /\ \E i \in DOMAIN argv : \E j \in DOMAIN argv : argv[i] = "string" /\ argv[j] = "int")
        => ret.value = NoType

\* C14: get_blank and blank_detector raise for no type of the lattice; for
\* the types under numeric they give NaN and the NaN test, for string the
\* none-sentinel and the not-None test.
BlankOfType ==
    /\ (ret.op = "get_blank" /\ argv[1] \in CellTypes) =>
            /\ ret.value.k # IndexError
            /\ ret.value = (IF argv[1] \in UnderNumeric THEN NaN ELSE None)
    /\ (ret.op = "blank_detector" /\ argv[1] \in CellTypes) =>
            /\ ret.value # IndexError
            /\ ret.value = (IF argv[1] \in UnderNumeric THEN "not isnan" ELSE "is not None")

----------------------------------------------------------------------------
(* Ranges and blocks on their own *)

GridSize == 3

\* the rectangles of positive width and height on an n by n grid
Ranges(n) ==
    {r \in [column : 0..(n - 1), row : 0..(n - 1), width : 1..n, height : 1..n] :
        x1(r) <= n /\ y1(r) <= n}

\* a block of text vectors over range r of table t
TextBlock(t, r, orientation) ==
    Block(t, r, orientation, [i \in 1..Range_vector_count(r, orientation) |-> "string"])

InitRange ==
    \E a \in Ranges(GridSize) : \E b \in Ranges(GridSize) : \E t \in {"T1", "T2"} :
        Pending(<<TextBlock("T1", a, "vertical"), TextBlock(t, b, "vertical")>>)

CallRangeOverlapsWith ==
    Return("Range.overlaps_with",
           Range_overlaps_with(argv[1].relative_range, argv[2].relative_range))
CallBlockOverlapsWith ==
    Return("Block.overlaps_with", Block_overlaps_with(argv[1], argv[2]))

NextRange ==
    \/ CallRangeOverlapsWith
    \/ CallBlockOverlapsWith
SpecRange == InitRange /\ [][NextRange]_vars

\* C15: Range.overlaps_with is true exactly when the two rectangles have a
\* cell in common (so it is false for rectangles apart along one axis or
\* along both) and is symmetric; Block.overlaps_with is true exactly when
\* the blocks are in one table and their ranges have a cell in common.
OverlapExact ==
    LET a == argv[1].relative_range
        b == argv[2].relative_range
        share == CellsOf(a) \cap CellsOf(b) # {}
    IN  /\ ret.op = "Range.overlaps_with" =>
              /\ ret.value = share
              /\ Range_overlaps_with(b, a) = ret.value
        /\ ret.op = "Block.overlaps_with" =>
              ret.value = (argv[1].table = argv[2].table /\ share)

----------------------------------------------------------------------------
(* Sub-blocks *)

\* the vector types of the blocks of count vectors that can be built
TypeVectors(r, orientation) ==
    {types \in [1..Range_vector_count(r, orientation) -> {"string", "int", "float"}] :
        Block_new("T1", r, orientation, types).raised = ""}

InitBlock ==
    \E r \in Ranges(GridSize) : \E orientation \in {"vertical", "horizontal"} :
    \E types \in TypeVectors(r, orientation) :
    \E i \in 0..(GridSize - 1) : \E n \in 1..GridSize :
        /\ i + n <= Range_vector_count(r, orientation) + 1
        /\ Pending(<<Block("T1", r, orientation, types), i, n>>)

CallSubBlock ==
    LET call == sub_block(argv[1], argv[2], argv[3], cache)
    IN  /\ ret' = [op |-> "sub_block", value |-> call.out]
        /\ cache' = call.cache
        /\ UNCHANGED <<cells, blocks, store, todo, result, argv>>
CallIter ==
    LET call == iter(argv[1], 0, <<>>, cache)
    IN  /\ ret' = [op |-> "iter", value |-> call.out]
        /\ cache' = call.cache
        /\ UNCHANGED <<cells, blocks, store, todo, result, argv>>

NextBlock ==
    \/ CallSubBlock
    \/ CallIter
SpecBlock == InitBlock /\ [][NextBlock]_vars

\* the cells of vectors i .. i + n - 1 (counted from 0) of block b
CellsOfVectors(b, i, n) ==
    {cell \in CellsOf(b.relative_range) :
        LET along == IF b.orientation = "vertical"
                     THEN cell[1] - x0(b.relative_range)
                     ELSE cell[2] - y0(b.relative_range)
        IN  i <= along /\ along < i + n}

\* s is the block of vectors i .. i + n - 1 of b
IsSubBlock(s, b, i, n) ==
    /\ s.table = b.table
    /\ s.orientation = b.orientation
    /\ s.relative_range.width > 0 /\ s.relative_range.height > 0
    /\ CellsOf(s.relative_range) = CellsOfVectors(b, i, n)
    /\ is_sub_block(b, s)
    /\ vector_count(s) = n
    /\ vector_length(s) = vector_length(b)

\* C16: for a block of either orientation and i >= 0, n >= 1 with
\* i + n <= vector_count(), sub_block(i, n) succeeds with the block of the
\* vectors i .. i + n - 1 of the parent, which the cache then holds for the
\* next call; iterating the block yields sub_block(i, 1) for every i.
SubBlockExact ==
    LET b == argv[1]
    IN  /\ (ret.op = "sub_block" /\ argv[2] + argv[3] <= vector_count(b)) =>
              /\ ret.value.raised = ""
              /\ IsSubBlock(ret.value.value, b, argv[2], argv[3])
              /\ <<argv[2], argv[3]>> \in DOMAIN cache
              /\ cache[<<argv[2], argv[3]>>] = ret.value.value
        /\ ret.op = "iter" =>
              /\ ret.value.raised = ""
              /\ Len(ret.value.value) = vector_count(b)
              /\ \A j \in DOMAIN ret.value.value :
                    IsSubBlock(ret.value.value[j], b, j - 1, 1)

----------------------------------------------------------------------------
(* MaxRange on its own *)

MaxVectors == 3

\* find(lo, hi, size) under every callback over the windows of MaxVectors
\* vectors
InitMaxRange ==
    \E test \in [AllWindows(MaxVectors) -> BOOLEAN] :
    \E lo \in 0..(MaxVectors - 1) : \E hi \in 1..MaxVectors : \E size \in 1..2 :
        /\ lo < hi
        /\ Pending(<<test, lo, hi, size>>)

CallFind ==
    Return("find", find(argv[1], argv[2], argv[3], argv[4]))

NextMaxRange == CallFind
SpecMaxRange == InitMaxRange /\ [][NextMaxRange]_vars

\* C17: every window find(lo, hi, min) reports (the callback answered True
\* on it) lies in [lo, hi), has at least min vectors and is not strictly
\* inside another window of [lo, hi) on which the callback holds.
ReportedMaximal ==
    ret.op = "find" =>
        \A w \in Accepted(argv[1], ret.value) :
            /\ argv[2] <= w[1] /\ w[2] <= argv[3]
            /\ w[2] - w[1] >= argv[4]
            /\ ~\E v \in AllWindows(MaxVectors) :
                  /\ argv[2] <= v[1] /\ v[2] <= argv[3]
                  /\ argv[1][v]
                  /\ v[1] <= w[1] /\ w[2] <= v[2] /\ v # w

\* C22: within one find call, once the callback has answered True on
\* [s, e) it is never called again on a window contained in [s, e), and it
\* is never called twice on the same window.
NoRetest ==
    ret.op = "find" =>
        \A i \in DOMAIN ret.value : \A j \in DOMAIN ret.value :
            i < j =>
                /\ ret.value[i] # ret.value[j]
                /\ argv[1][ret.value[i]] =>
                       ~(/\ ret.value[i][1] <= ret.value[j][1]
                         /\ ret.value[j][2] <= ret.value[i][2])

\* the second half of C22 alone: no window is tested twice in one call
NoRepeat ==
    ret.op = "find" =>
        \A i \in DOMAIN ret.value : \A j \in DOMAIN ret.value :
            i < j => ret.value[i] # ret.value[j]

\* window v lies in window w
Within(v, w) == w[1] <= v[1] /\ v[2] <= w[2]

\* the callback holds on every window inside a window it holds on
DownwardClosed(test) ==
    \A w \in DOMAIN test : \A v \in DOMAIN test :
        (test[w] /\ Within(v, w)) => test[v]

\* the windows of [lo, hi) of at least size vectors on which test holds and
\* which lie in no other such window
MaximalWindows(test, lo, hi, size) ==
    LET holding == {w \in DOMAIN test :
                       Within(w, <<lo, hi>>) /\ w[2] - w[1] >= size /\ test[w]}
    IN  {w \in holding : \A v \in holding : Within(w, v) => v = w}

\* C27: for a downward-closed callback, find(lo, hi, min) reports every
\* window of [lo, hi) of at least min vectors on which the callback holds and
\* which lies in no larger window on which it holds.
FindComplete ==
    (ret.op = "find" /\ DownwardClosed(argv[1])) =>
        MaximalWindows(argv[1], argv[2], argv[3], argv[4])
            \subseteq Accepted(argv[1], ret.value)

----------------------------------------------------------------------------
(* The sweep of MaxRange, one round of its loop at a time *)

\* the locals of find and _find, and where the call stands
Sweep(pc, start, end, limit, last) ==
    [op |-> "_find",
     value |-> [pc |-> pc, start |-> start, end |-> end, limit |-> limit, last |-> last]]

\* limit=None, last=None
Unset == -1

\* find(lo, hi, size) entered under every callback, an empty range included
InitSweep ==
    \E test \in [AllWindows(MaxVectors) -> BOOLEAN] :
    \E lo \in 0..MaxVectors : \E hi \in 0..MaxVectors : \E size \in 1..2 :
        /\ lo <= hi
        /\ cells = Sheet(NoTable, NoTable, NoTable)
        /\ blocks = {}
        /\ store = <<>>
        /\ todo = <<>>
        /\ result = NotCalled
        /\ argv = <<test, lo, hi, size>>
        /\ ret = Sweep("find", lo, hi, Unset, Unset)
        /\ cache = <<>>

InLoop == ret.op = "_find" /\ ret.value.pc = "loop"

\* find: the defaults of limit and last, and the call of _find
SweepCall ==
    /\ ret.op = "_find" /\ ret.value.pc = "find"
    /\ ret' = Sweep("loop", ret.value.start, ret.value.end,
                    IF ret.value.limit = Unset
                    THEN ret.value.start + argv[4] - 1 ELSE ret.value.limit,
                    IF ret.value.last = Unset THEN ret.value.end ELSE ret.value.last)
    /\ UNCHANGED <<cells, blocks, store, todo, result, argv, cache>>

\* if last - start < size: return
SweepReturn ==
    /\ InLoop
    /\ ret.value.last - ret.value.start < argv[4]
    /\ ret' = [ret EXCEPT !.value.pc = "done"]
    /\ UNCHANGED <<cells, blocks, store, todo, result, argv, cache>>

\* elif end - start < size or end < limit: the next start, end back at last
SweepAdvance ==
    /\ InLoop
    /\ ret.value.last - ret.value.start >= argv[4]
    /\ \/ ret.value.end - ret.value.start < argv[4]
       \/ ret.value.end < ret.value.limit
    /\ ret' = Sweep("loop", ret.value.start + 1, ret.value.last,
                    Max2(ret.value.start + 1 + argv[4], ret.value.limit),
                    ret.value.last)
    /\ UNCHANGED <<cells, blocks, store, todo, result, argv, cache>>

\* a round that calls the callback
SweepTests ==
    /\ InLoop
    /\ ret.value.last - ret.value.start >= argv[4]
    /\ ret.value.end - ret.value.start >= argv[4]
    /\ ret.value.end >= ret.value.limit

\* a hit that leaves start where it is
SweepHit_in_place ==
    /\ SweepTests
    /\ argv[1][<<ret.value.start, ret.value.end>>]
    /\ UNCHANGED vars

\* else, the callback answers True: start += 1
SweepHit ==
    /\ SweepTests
    /\ argv[1][<<ret.value.start, ret.value.end>>]
    /\ ret' = [ret EXCEPT !.value.start = @ + 1]
    /\ UNCHANGED <<cells, blocks, store, todo, result, argv, cache>>

\* else, the callback answers False: end -= 1
SweepMiss ==
    /\ SweepTests
    /\ ~argv[1][<<ret.value.start, ret.value.end>>]
    /\ ret' = [ret EXCEPT !.value.end = @ - 1]
    /\ UNCHANGED <<cells, blocks, store, todo, result, argv, cache>>

NextSweep ==
    \/ SweepCall
    \/ SweepReturn
    \/ SweepAdvance
    \/ SweepHit
    \/ SweepMiss
\* the loop is sequential code: a round that can run does run
SpecSweep == InitSweep /\ [][NextSweep]_vars /\ WF_vars(NextSweep)

\* a round of the loop moves start up or end down, never start down, and
\* never end below start
SweepProgress ==
    (InLoop /\ InLoop') =>
        /\ ret'.value.start > ret.value.start \/ ret'.value.end < ret.value.end
        /\ ret'.value.start >= ret.value.start
        /\ ret'.value.end >= ret'.value.start

SweepDone == ret.op = "_find" /\ ret.value.pc = "done"

\* C26: for every lo <= hi, every min >= 1 and every callback, _find
\* returns; every round of its loop either increases start or decreases end,
\* start never decreases and end never drops below start.
FindTerminates == [][SweepProgress]_vars /\ <>SweepDone

\* a sweep that has returned after moving its start
FindTerminatesSeen ==
    /\ SweepDone
    /\ ret.value.start > argv[2]
    /\ ret.value.limit > argv[2] + argv[4] - 1

----------------------------------------------------------------------------
(* The visiting order of the whole catalogue *)

CatalogueNames == {Catalogue[i].name : i \in DOMAIN Catalogue}

InitOrder ==
    \E x \in OneOff : \E sheet \in ChainSheets(x) : Start(sheet, CatalogueNames)
NextOrder ==
    \/ LearnAllDifferent
    \/ LearnPermutation
    \/ LearnSeries
    \/ LearnRank
    \/ LearnForeignKey
    \/ LearnLookup
    \/ LearnMaxIf
    \/ LearnSumIf
    \/ LearnProjection
    \/ LearnEqual
    \/ LearnMaxCol
    \/ LearnMaxRow
    \/ LearnSumCol
    \/ LearnSumRow
SpecOrder == InitOrder /\ [][NextOrder]_vars

\* the templates name depends on, directly or through others, in at most
\* k steps
RECURSIVE Prerequisites(_, _)
Prerequisites(name, k) ==
    IF k = 0 THEN {}
    ELSE LET direct == Template(name).depends_on
         IN  direct \cup UNION {Prerequisites(d, k - 1) : d \in direct}

\* the pairs <<earlier, later>> the catalogue is to enforce
Precedences ==
    {<<"all-different", "permutation">>, <<"permutation", "series">>,
     <<"all-different", "foreign-key">>, <<"foreign-key", "lookup">>,
     <<"lookup", "max-if">>, <<"lookup", "sum-if">>} \cup
    ({"equal", "project"} \X {"max (col)", "max (row)", "sum (col)", "sum (row)"})

\* the templates visited before the i-th visit
VisitedBefore(i) == {store[j].template : j \in 1..(i - 1)}

----------------------------------------------------------------------------
(* The validators' tests on vectors with zeros and missing keys *)

\* the sheet read and Equal learned, the vectors inputs waiting for a test
Offered(sheet, inputs) ==
    /\ cells = sheet.cells
    /\ blocks = sheet.blocks
    /\ store = <<[template |-> "equal",
                  solutions |-> strategy(Equal, candidates(Equal, sheet.blocks, <<>>),
                                         <<>>)]>>
    /\ todo = <<>>
    /\ result = NotCalled
    /\ argv = inputs
    /\ ret = NoCall
    /\ cache = <<>>

\* the vectors that are 1 everywhere but at one place, zero allowed there
ZeroOff ==
    {[i \in 1..VectorLength |-> IF i = p THEN a ELSE 1] :
        p \in 1..VectorLength, a \in 0..MaxValue}

\* the columns R offered for O1 = x and O2 = y: the products, and the
\* percentual differences to two digits (0 where y is 0)
ResultsOf(x, y) ==
    {[i \in DOMAIN x |-> Whole(x[i] * y[i])],
     [i \in DOMAIN x |-> IF y[i] = 0 THEN Whole(0)
                         ELSE Num(RoundRatio((x[i] - y[i]) * 100, y[i]))]}

\* the ways of placing three columns in a table
Placements == {p \in [1..3 -> 1..3] : \A i \in 1..3 : \A j \in 1..3 : p[i] = p[j] => i = j}

\* one table with the columns R, O1, O2 at the places p, a block per column
OperationSheet(r, x, y, p) ==
    LET roles == <<r, IntColumn(x), IntColumn(y)>>
        data == TableOfColumns([c \in 1..3 |-> roles[CHOOSE k \in 1..3 : p[k] = c]])
    IN  [cells |-> Sheet(data, NoTable, NoTable),
         blocks |-> {ColumnStrip(data, "T1", c - 1, 1) : c \in 1..3},
         inputs |-> [k \in 1..3 |-> ColumnStrip(data, "T1", p[k] - 1, 1)]]

\* the values offered for the keys fk against the keys 1..n with values
\* ov: those of the equal key, or those of the last key not above
LookedUp(ov, fk) ==
    {[i \in DOMAIN fk |-> IF fk[i] \in DOMAIN ov THEN ov[fk[i]] ELSE ov[1]],
     [i \in DOMAIN fk |-> IF fk[i] = 0 THEN ov[1]
                          ELSE IF fk[i] > Len(ov) THEN ov[Len(ov)] ELSE ov[fk[i]]]}

\* T1: the keys 1..n and their values; T2: the keys fk and values for them;
\* T3: a column one cell shorter.  The value vector is that of T2 or of T3
KeySheets(fk) ==
    LET ov == IntColumn(Backwards)
        t1 == TableOfColumns(<<Counting, ov>>)
        t3 == TableOfColumns(<<SubSeq(ov, 1, VectorLength - 1)>>)
    IN  UNION {LET t2 == TableOfColumns(<<IntColumn(fk), fv>>)
                   all == {ColumnStrip(t1, "T1", 0, 1), ColumnStrip(t1, "T1", 1, 1),
                           ColumnStrip(t2, "T2", 0, 1), ColumnStrip(t2, "T2", 1, 1),
                           ColumnStrip(t3, "T3", 0, 1)}
               IN  {[cells |-> Sheet(t1, t2, t3), blocks |-> all,
                     inputs |-> <<ColumnStrip(t1, "T1", 0, 1), ColumnStrip(t1, "T1", 1, 1),
                                  ColumnStrip(t2, "T2", 0, 1), last>>] :
                        last \in {ColumnStrip(t2, "T2", 1, 1), ColumnStrip(t3, "T3", 0, 1)}} :
               fv \in LookedUp(ov, fk)}

InitEdge ==
    \/ \E x \in ZeroOff : \E y \in ZeroOff : \E r \in ResultsOf(x, y) : \E p \in Placements :
          LET sheet == OperationSheet(r, x, y, p) IN Offered(sheet, sheet.inputs)
    \/ \E fk \in ZeroOff : \E sheet \in KeySheets(fk) : Offered(sheet, sheet.inputs)

CallPercentDiff ==
    /\ Len(argv) = 3
    /\ Return("percent_diff", percent_diff_is_diff(argv[1], argv[2], argv[3], store))
CallProduct ==
    /\ Len(argv) = 3
    /\ Return("product", is_product(argv[1], argv[2], argv[3]))
CallFuzzyLookup ==
    /\ Len(argv) = 4
    /\ length(argv[3]) = length(argv[4])
    /\ Return("fuzzy_lookup", fuzzy_test_equal(argv[1], argv[2], argv[3], argv[4], store))
CallLookup ==
    /\ Len(argv) = 4
    /\ Return("lookup", is_lookup(to_data(argv[1]), to_data(argv[2]),
                                  to_data(argv[3]), to_data(argv[4])))

NextEdge ==
    \/ CallPercentDiff
    \/ CallProduct
    \/ CallFuzzyLookup
    \/ CallLookup
SpecEdge == InitEdge /\ [][NextEdge]_vars

\* some cell of vector v is the number zero
HasZero(v) == \E i \in DOMAIN to_data(v) : to_data(v)[i] = Whole(0)

\* the data of the call holds the edge case of its test, Product apart
EdgeCase ==
    \/ ret.op = "percent_diff" /\ HasZero(argv[3])
    \/ /\ ret.op = "fuzzy_lookup"
       /\ \E i \in DOMAIN to_data(argv[3]) : \A k \in DOMAIN to_data(argv[1]) :
             to_data(argv[3])[i].v < to_data(argv[1])[k].v
    \/ /\ ret.op = "lookup"
       /\ \/ length(argv[3]) # length(argv[4])
          \/ \E i \in DOMAIN to_data(argv[3]) : \A k \in DOMAIN to_data(argv[1]) :
                to_data(argv[3])[i] # to_data(argv[1])[k]

----------------------------------------------------------------------------
(* Seeds with an empty domain *)

\* sheets of the chain, and sheets of text alone
SeedSheets(x) ==
    ChainSheets(x) \cup
    OneTableSheets(TableOfColumns(<<TextColumn(x), TextColumn(Backwards)>>))

SeedTemplates ==
    {"all-different", "equal", "foreign-key", "lookup", "permutation", "sum-if"}

InitSeeds == \E x \in Vec : \E sheet \in SeedSheets(x) : Start(sheet, SeedTemplates)
NextSeeds ==
    \/ LearnAllDifferent
    \/ LearnEqual
    \/ LearnForeignKey
    \/ LearnLookup
    \/ LearnPermutation
    \/ LearnSumIf
SpecSeeds == InitSeeds /\ [][NextSeeds]_vars

\* the orders in which the seeds S can stand in the list
SeedOrders(S) ==
    {order \in [1..Cardinality(S) -> S] :
        \A i \in DOMAIN order : \A j \in DOMAIN order : order[i] = order[j] => i = j}

\* the first variable of c with an empty domain under seed is bound by the
\* seed (bound = TRUE) or left free by it (bound = FALSE)
EmptyDomain(c, seed, bound) ==
    \E i \in DOMAIN c.variables :
        /\ Domain(c.variables[i], seed, blocks) = {}
        /\ \A j \in 1..(i - 1) : Domain(c.variables[j], seed, blocks) # {}
        /\ (c.variables[i].name \in DOMAIN seed) = bound

\* the places of the seeds of order with such an empty domain
EmptyAt(c, order, bound) == {k \in DOMAIN order : EmptyDomain(c, order[k], bound)}

\* C20: while completing the seeds of a derived template, an empty domain
\* of a variable the seed binds costs that seed alone and the seeds after it
\* are still tried; an empty domain of a variable the seed leaves free stops
\* the loop there, with no candidate at all.
SeedsResume ==
    \A i \in DOMAIN store :
        LET c == Template(store[i].template)
            seeds == Seeds(c, Earlier(i))
        IN  c.source.constraint # "" =>
              \A order \in SeedOrders(seeds) :
                LET run == _complete(c, order, blocks, 1, {})
                    free == EmptyAt(c, order, FALSE)
                IN  /\ run.result = candidates(c, blocks, Earlier(i))
                    /\ free = {} =>
                          /\ run.tried = Len(order)
                          /\ run.result =
                               UNION {try_assignment(c, seed, blocks).solutions :
                                          seed \in seeds}
                    /\ free # {} =>
                          /\ run.tried = CHOOSE k \in free : \A j \in free : k <= j
                          /\ run.result = {}

\* C20 as stated: an empty domain of a seeded variable stops the seeds after
\* it, and one of a variable the seed leaves free does not
SeedsStop ==
    \A i \in DOMAIN store :
        LET c == Template(store[i].template)
            seeds == Seeds(c, Earlier(i))
        IN  c.source.constraint # "" =>
              \A order \in SeedOrders(seeds) :
                LET run == _complete(c, order, blocks, 1, {})
                    bound == EmptyAt(c, order, TRUE)
                IN  /\ bound # {} =>
                          run.tried = CHOOSE k \in bound : \A j \in bound : k <= j
                    /\ bound = {} => run.tried = Len(order)

\* a run where a seed with an empty domain of its own variable is followed
\* by a seed that gives a candidate
SeedsResumeSeen ==
    \E i \in DOMAIN store :
        LET c == Template(store[i].template)
            seeds == Seeds(c, Earlier(i))
        IN  /\ c.source.constraint # ""
            /\ \E order \in SeedOrders(seeds) :
                  /\ 1 \in EmptyAt(c, order, TRUE)
                  /\ _complete(c, order, blocks, 1, {}).result # {}

\* a run where a variable the seed leaves free stops the loop with seeds left
SeedsStoppedSeen ==
    \E i \in DOMAIN store :
        LET c == Template(store[i].template)
            seeds == Seeds(c, Earlier(i))
        IN  /\ c.source.constraint # ""
            /\ Cardinality(seeds) > 1
            /\ \E order \in SeedOrders(seeds) : EmptyAt(c, order, FALSE) # {}

----------------------------------------------------------------------------
(* What the conditional aggregates leave to earlier findings *)

----------------------------------------------------------------------------
(* What Aggregate leaves to Projection and Equal *)

\* an Equal instance over the two vectors is in the store
EqualInStore(v1, v2) ==
    \E sol \in get_solutions(store, "equal") :
        {sol["O1"], sol["O2"]} = {v1, v2}

\* a table T1 of three columns: x at its first place and blank below, x
\* blank at its first place, and x; its columns are one block
GapSheets(x) ==
    LET data == TableOfColumns(<<[i \in DOMAIN x |-> IF i = 1 THEN Whole(x[i]) ELSE NaN],
                                 [i \in DOMAIN x |-> IF i = 1 THEN NaN ELSE Whole(x[i])],
                                 IntColumn(x)>>)
    IN  {[cells |-> Sheet(data, NoTable, NoTable),
          blocks |-> {ColumnStrip(data, "T1", 0, 3)}]}

InitSubsumed ==
    \E x \in Vec : \E sheet \in AggregateSheets(x) \cup GapSheets(x) :
        Start(sheet, AggregateTemplates)
NextSubsumed ==
    \/ LearnEqual
    \/ LearnProjection
    \/ LearnMaxRow
SpecSubsumed == InitSubsumed /\ [][NextSubsumed]_vars

\* the candidates of max (row) that pass the numeric test and, where there
\* is one, the overlap test
AggregateCandidates ==
    aggregate(Template("max (row)"),
              candidates(Template("max (row)"), blocks, StoreBefore("max (row)")),
              <<>>)

\* every two vectors of X and Y are a stored Equal instance
AllPairsEqual(f) ==
    \A u \in Vectors(f["X"]) \cup Vectors(f["Y"]) :
        \A v \in Vectors(f["X"]) \cup Vectors(f["Y"]) :
            u # v => EqualInStore(u, v)

\* C25: Aggregate reports no {X, Y} for which the store holds the Projection
\* {P = X, R = Y} or every pair of vectors of X and Y as an Equal instance,
\* and reports every other candidate that passes the numeric test and the
\* overlap test.
AggregateSubsumed ==
    Learned("max (row)") =>
        get_solutions(store, "max (row)") =
            {f \in AggregateCandidates :
                /\ ~has_solution(store, "project", [P |-> f["X"], R |-> f["Y"]])
                /\ ~AllPairsEqual(f)}

\* a candidate left to Projection
AggregateSubsumedSeen ==
    /\ Learned("max (row)")
    /\ \E f \in AggregateCandidates :
          /\ has_solution(store, "project", [P |-> f["X"], R |-> f["Y"]])
          /\ ~AllPairsEqual(f)
          /\ ~has_solution(store, "max (row)", f)

\* a candidate left to Equal
AggregateEqualSeen ==
    /\ Learned("max (row)")
    /\ \E f \in AggregateCandidates :
          /\ AllPairsEqual(f)
          /\ ~has_solution(store, "project", [P |-> f["X"], R |-> f["Y"]])
          /\ ~has_solution(store, "max (row)", f)

----------------------------------------------------------------------------
(* The length filter of the aggregates on its own *)

\* the rectangles of an n by n grid that start at its corner
CornerRanges(n) == {r \in Ranges(n) : r.column = 0 /\ r.row = 0}

Operations == {"average", "count", "max", "min", "product", "sum"}

\* X and Y over corner rectangles of either orientation, and the
\* orientation and operation of the aggregate
InitLength ==
    \E rx \in CornerRanges(GridSize) : \E ry \in CornerRanges(GridSize) :
    \E ox \in {"vertical", "horizontal"} : \E oy \in {"vertical", "horizontal"} :
    \E orientation \in {"vertical", "horizontal"} : \E operation \in Operations :
        Pending(<<TextBlock("T1", rx, ox), TextBlock("T2", ry, oy),
                  orientation, operation>>)

\* the second filter of Aggregate(orientation, operation) on {X, Y}
CallAggregateLength ==
    Return("Aggregate.test",
           FilterTest(Aggregate(argv[3], argv[4]).filters[2],
                      [n \in {"X", "Y"} |-> IF n = "X" THEN argv[1] ELSE argv[2]]))

NextLength == CallAggregateLength
SpecLength == InitLength /\ [][NextLength]_vars

\* what the length filter is to admit, the two cases told apart by matches
LengthAdmits(matches) ==
    LET x == argv[1]
        y == argv[2]
        size == IF argv[3] = "vertical" THEN x.relative_range.width
                ELSE x.relative_range.height
        least == IF argv[4] \in {"sum", "product"} THEN 3 ELSE 2
    IN  IF matches THEN vector_length(y) <= size
        ELSE vector_length(y) = size /\ vector_count(x) >= least

\* C21: the length filter of Aggregate(orientation, op) admits, when
\* X.row = (orientation = HORIZONTAL), exactly the assignments with
\* Y.length <= size(X), and otherwise exactly those with Y.length = size(X)
\* and X.vectors >= min_vectors (3 for SUM and PRODUCT, 2 for the others).
LengthFilterExact ==
    ret.op = "Aggregate.test" =>
        ret.value = LengthAdmits((argv[1].orientation = "horizontal")
                                    = (argv[3] = "horizontal"))

\* C21 as stated: the two cases told apart by X.row # (orientation = HORIZONTAL)
LengthFilterStated ==
    ret.op = "Aggregate.test" =>
        ret.value = LengthAdmits((argv[1].orientation = "horizontal")
                                    # (argv[3] = "horizontal"))

\* a SUM over sub-ranges turned down for two vectors alone
LengthFilterExactSeen ==
    /\ ret.op = "Aggregate.test"
    /\ argv[4] = "sum"
    /\ (argv[1].orientation = "horizontal") # (argv[3] = "horizontal")
    /\ vector_count(argv[1]) = 2
    /\ vector_length(argv[2]) = (IF argv[3] = "vertical" THEN argv[1].relative_range.width
                                 ELSE argv[1].relative_range.height)
    /\ ret.value = FALSE

----------------------------------------------------------------------------
(* The test of FuzzyLookup over increasing keys *)

\* the strictly increasing key columns
Increasing == {v \in Vec : \A i \in DOMAIN v : \A j \in DOMAIN v : i < j => v[i] < v[j]}

\* the keys of ok with one of them replaced, zero allowed
NearKeys(ok) ==
    {[i \in DOMAIN ok |-> IF i = p THEN a ELSE ok[i]] :
        p \in DOMAIN ok, a \in 0..MaxValue}

\* the values 1, 2, 2, .., 2
Plateau == [i \in 1..VectorLength |-> IF i = 1 THEN 1 ELSE 2]

\* the place in ok of the last key not above key (the first place when none)
PlaceBelow(ok, key) ==
    LET below == {j \in DOMAIN ok : ok[j] <= key}
    IN  IF below = {} THEN 1 ELSE CHOOSE j \in below : \A k \in below : k <= j

\* the columns FV offered: the values at the places below the keys, the
\* values of ov as they stand, and its first value throughout
ValuesFor(ok, ov, fk) ==
    {[i \in DOMAIN fk |-> ov[PlaceBelow(ok, fk[i])]],
     ov,
     [i \in DOMAIN fk |-> ov[1]]}

\* T1: the keys ok and the values ov; T2: the keys fk and the values fv
FuzzySheets(ok, ov, fk) ==
    {LET t1 == TableOfColumns(<<IntColumn(ok), IntColumn(ov)>>)
         t2 == TableOfColumns(<<IntColumn(fk), IntColumn(fv)>>)
         all == {ColumnStrip(t1, "T1", 0, 1), ColumnStrip(t1, "T1", 1, 1),
                 ColumnStrip(t2, "T2", 0, 1), ColumnStrip(t2, "T2", 1, 1)}
     IN  [cells |-> Sheet(t1, t2, NoTable), blocks |-> all,
          inputs |-> <<ColumnStrip(t1, "T1", 0, 1), ColumnStrip(t1, "T1", 1, 1),
                       ColumnStrip(t2, "T2", 0, 1), ColumnStrip(t2, "T2", 1, 1)>>] :
        fv \in ValuesFor(ok, ov, fk)}

InitFuzzy ==
    \E ok \in Increasing : \E ov \in {Backwards, Plateau} : \E fk \in NearKeys(ok) :
    \E sheet \in FuzzySheets(ok, ov, fk) : Offered(sheet, sheet.inputs)

NextFuzzy == CallFuzzyLookup
SpecFuzzy == InitFuzzy /\ [][NextFuzzy]_vars

\* every foreign key has a last key not above it, and the value there is the
\* foreign value
FuzzyMatches(ok, ov, fk, fv) ==
    \A i \in DOMAIN fk :
        \E j \in DOMAIN ok :
            /\ ok[j].v <= fk[i].v
            /\ \A k \in DOMAIN ok : ok[k].v <= fk[i].v => k <= j
            /\ equal(fv[i], ov[j])

\* some foreign key is not itself a key
FuzzyInexact(ok, fk) ==
    \E i \in DOMAIN fk : \A j \in DOMAIN ok : ok[j] # fk[i]

\* the vectors of the call are blank-free and OK is strictly increasing
FuzzyPrecondition ==
    /\ \A n \in 1..4 : \A i \in DOMAIN to_data(argv[n]) : IsNum(to_data(argv[n])[i])
    /\ \A i \in DOMAIN to_data(argv[1]) : \A j \in DOMAIN to_data(argv[1]) :
          i < j => to_data(argv[1])[i].v < to_data(argv[1])[j].v

\* C23: for blank-free vectors with OK strictly increasing, FuzzyLookup
\* accepts (OK, OV, FK, FV) exactly when every FK[i] has a largest j with
\* OK[j] <= FK[i] and FV[i] equals OV[j], some FK[i] is not matched exactly,
\* and neither Equal(OK, FK) nor Equal(OV, FV) is in the store.
FuzzyExact ==
    (ret.op = "fuzzy_lookup" /\ FuzzyPrecondition) =>
        ret.value = (/\ FuzzyMatches(to_data(argv[1]), to_data(argv[2]),
                                     to_data(argv[3]), to_data(argv[4]))
                     /\ FuzzyInexact(to_data(argv[1]), to_data(argv[3]))
                     /\ ~EqualInStore(argv[1], argv[3])
                     /\ ~EqualInStore(argv[2], argv[4]))

\* an inexact lookup accepted
FuzzyExactSeen ==
    /\ ret.op = "fuzzy_lookup"
    /\ FuzzyPrecondition
    /\ FuzzyInexact(to_data(argv[1]), to_data(argv[3]))
    /\ ret.value = TRUE

----------------------------------------------------------------------------
(* The order of blocks *)

\* two blocks of text over the rectangles of the grid, of either orientation,
\* in one table or in two
InitCompare ==
    \E a \in Ranges(GridSize) : \E b \in Ranges(GridSize) : \E t \in {"T1", "T2"} :
    \E oa \in {"vertical", "horizontal"} : \E ob \in {"vertical", "horizontal"} :
        Pending(<<TextBlock("T1", a, oa), TextBlock(t, b, ob)>>)

\* a < b, b < a and a == b
CallCompare ==
    Return("Block.__lt__",
           [lt |-> Block_lt(argv[1], argv[2]), gt |-> Block_lt(argv[2], argv[1]),
            eq |-> Block_eq(argv[1], argv[2])])

NextCompare == CallCompare
SpecCompare == InitCompare /\ [][NextCompare]_vars

\* C29: for any two blocks a and b exactly one of a < b, b < a, a == b
\* holds, also for two blocks of one table and orientation that differ only
\* in their offset along the vector direction.
BlockOrderTotal ==
    ret.op = "Block.__lt__" =>
        \/ ret.value.lt /\ ~ret.value.gt /\ ~ret.value.eq
        \/ ~ret.value.lt /\ ret.value.gt /\ ~ret.value.eq
        \/ ~ret.value.lt /\ ~ret.value.gt /\ ret.value.eq

----------------------------------------------------------------------------
(* The templates a validator looks up in the store *)

\* the templates whose instances the strategy of template name asks the
\* store for (has, has_solution, found_equal, equal_groups)
StoreReads(name) ==
    CASE name = "rank" -> {"equal"}
      [] name = "lookup" -> {"equal"}
      [] name \in {"max-if", "sum-if"} -> {"foreign-key", "lookup"}
      [] name \in {"max (col)", "max (row)", "sum (col)", "sum (row)"} ->
             {"equal", "project"}
      [] name = "equal-group" -> {"equal"}
      [] OTHER -> {}

ReadTemplates == {"equal", "equal-group", "max (row)", "project", "rank"}

\* the orders of the enabled templates in which each comes after all it
\* depends on
ConsistentOrders(enabled) ==
    {o \in [1..Cardinality(enabled) -> enabled] :
        /\ \A n \in enabled : \E i \in DOMAIN o : o[i] = n
        /\ \A i \in DOMAIN o :
              (Template(o[i]).depends_on \cap enabled) \subseteq {o[j] : j \in 1..(i - 1)}}

InitReads ==
    \E x \in Vec : \E sheet \in AggregateSheets(x) :
    \E order \in ConsistentOrders(ReadTemplates) :
        /\ cells = sheet.cells
        /\ blocks = sheet.blocks
        /\ store = <<>>
        /\ todo = order
        /\ result = NotCalled
        /\ argv = <<>>
        /\ ret = NoCall
        /\ cache = <<>>
NextReads ==
    \/ LearnEqual
    \/ LearnEqualGroup
    \/ LearnProjection
    \/ LearnMaxRow
    \/ LearnRank
SpecReads == InitReads /\ [][NextReads]_vars

\* C30: whenever the validator of a template T has run, every template D it
\* asks the store for is another template, is in the transitive depends_on
\* closure of T and was learned before T, in every order consistent with
\* depends_on.
ReadsDeclared ==
    \A i \in DOMAIN store :
        \A d \in StoreReads(store[i].template) :
            /\ d # store[i].template
            /\ d \in Prerequisites(store[i].template, Len(Catalogue))
            /\ d \in VisitedBefore(i)

\* what C30 says but for EqualGroup
ReadsDeclaredButGroups ==
    \A i \in DOMAIN store :
        store[i].template # "equal-group" =>
            \A d \in StoreReads(store[i].template) :
                /\ d # store[i].template
                /\ d \in Prerequisites(store[i].template, Len(Catalogue))
                /\ d \in VisitedBefore(i)

\* no validator writes to the store: a turn of the loop appends one batch
\* and leaves the batches before it as they were
StoreAppendOnly ==
    [][/\ Len(store') = Len(store) + 1
       /\ SubSeq(store', 1, Len(store)) = store]_store

====
